---- MODULE Spec2Model ----
(***************************************************************************)
(* Model of opencode-auth-sync: the credential file watcher                *)
(* (src/lib/watcher.ts), the secret dispatcher (src/lib/sync.ts,           *)
(* src/lib/github-http.ts), the config functions (lib/config.ts), the      *)
(* installer's addPluginToConfig (src/lib/cli-utils.ts) and the plugin     *)
(* function (src/index.ts).                                                *)
(*                                                                         *)
(* Strings are sequences of small numbers ("bytes"):                       *)
(*   1 = '{'   2 = '}'   3 = ' '   4 = a member token                      *)
(* Time is counted in ticks; a timer armed with n ticks may fire once n    *)
(* ticks have passed (it may fire late, never early).                      *)
(***************************************************************************)
EXTENDS Integers, Sequences, FiniteSets, TLC

\* ------------------------------------------------------------------ bounds
\* number of writes (content changes, identical re-writes, touches) of a run
MaxWrites == 2
\* number of writes of a run that studies bursts of raw events
MaxBurstWrites == 4
\* largest debounce interval, in ticks, a run may be configured with
MaxDebounce == 1
\* most handleChange invocations in flight at once
MaxInFlight == 2
\* longest target list handed to one dispatch
MaxTargets == 3
\* calls of the stop function in a run that studies stopping
MaxStops == 2
\* calls of mergeConfig in a row
MaxMerges == 2
\* longest plugin array of an opencode config
MaxPlugins == 3
\* longest generated content handed to computeHash
MaxHashLen == 1
\* invocations of handleCredentialsChange awaiting their dispatch at once
MaxJobs == 2
\* restarts of the plugin in a run
MaxRestarts == 1
\* writes of the credential file in a run of the plugin
MaxCredWrites == 1

\* ---------------------------------------------------------------- contents
\* the file contents a run may see: "{}", "{a}" with a space in front, and the
\* truncated "{a"
Contents == { <<1, 2>>, <<3, 1, 4, 2>>, <<1, 4>> }

NoHash == -1
NoTimer == 0
NoContent == <<0>>

\* ------------------------------------------------------------ pure helpers
RECURSIVE Digest(_)
Digest(s) ==
  IF s = <<>> THEN 7
  ELSE (Digest(SubSeq(s, 1, Len(s) - 1)) * 31 + s[Len(s)]) % 65536

\* computeHash in the watcher's runs: a short digest of the bytes of the
\* content, nothing else, different for the contents of a run; the SHA-256
\* fingerprint itself is computeHashHex below
computeHash(content) == Digest(content)

RECURSIVE StripSpace(_)
StripSpace(s) ==
  IF s = <<>> THEN <<>>
  ELSE IF s[1] = 3 THEN StripSpace(Tail(s))
  ELSE <<s[1]>> \o StripSpace(Tail(s))

\* JSON.parse succeeds on a braced document: '{' members '}'
JSONValid(s) ==
  LET t == StripSpace(s) IN
    /\ Len(t) >= 2
    /\ t[1] = 1
    /\ t[Len(t)] = 2
    /\ \A i \in 2..(Len(t) - 1) : t[i] = 4

\* the decoded value: the document without its insignificant whitespace
JSONParse(s) == StripSpace(s)

\* ------------------------------------------------------------------- state
VARIABLES
  file,           \* content of the credentials file
  rawPending,     \* chokidar has an add/change event to deliver
  closed,         \* watcher.close() was called
  debounceMs,     \* options.debounceMs, in ticks
  lastHash,       \* let lastHash
  debounceTimer,  \* let debounceTimer: handle of the last timer set, or NoTimer
  timers,         \* the runtime's armed timers: records [id, left, cur, behind]
  evals,          \* handleChange invocations in flight: [id, phase, content, cur, behind]
  nWrites,        \* writes so far
  quiet,          \* ticks since the last raw event, capped at debounceMs
  baseline,       \* options.storedHash as given at construction
  changed,        \* the file content changed since the watcher was constructed
  nChange,        \* onCredentialsChange invocations made while the file still held
                  \* the content it had at construction (0 once it changed)
  lastCalls,      \* the callbacks the last step invoked, in order
  burst,          \* the current burst of raw events: [len, evals, cbs]
  notified,       \* fingerprint of the last onCredentialsChange, or NoHash
  nStops          \* calls of the stop function, counted in the runs that study it

wvars == <<file, rawPending, closed, debounceMs, lastHash, debounceTimer, timers,
           evals, nWrites, quiet, baseline, changed, nChange, lastCalls,
           burst, notified, nStops>>

\* one call of syncToRepositories
VARIABLES
  method,         \* options.method: "gh" or "http"
  hasToken,       \* options.githubToken is a non-empty string
  repositories,   \* the target list, in input order
  pc,             \* where the call is: idle, loop, gh, key, encrypt, put, returned
  idx,            \* position of the for-of loop in the target list
  results,        \* const results: SyncResult[]
  transport,      \* targets a transport call was started for, in order
  requests,       \* HTTP requests issued, in order: [verb, repository]
  inFlight,       \* transport calls started and not yet settled
  summary,        \* the SyncSummary returned, or NoSummary
  settled         \* what the steps of the last transport call started did, in
                  \* order: records [step, threw, ok, text]

svars == <<method, hasToken, repositories, pc, idx, results, transport, requests,
           inFlight, summary, settled>>

\* one use of mergeConfig by the setup wizard
VARIABLES
  existing,       \* the Partial<AuthSyncConfig> loaded from the config file
  updates,        \* the Partial<AuthSyncConfig> of the user's answers
  merged,         \* the config at hand: `existing`, then what mergeConfig returned
  nMerges         \* calls of mergeConfig so far

cvars == <<existing, updates, merged, nMerges>>

\* one use of addPluginToConfig by the setup wizard
VARIABLES
  heap,           \* the objects and arrays that exist, by reference (1, 2, ...)
  before,         \* the heap as it was when addPluginToConfig was called
  updatedConfig   \* the reference addPluginToConfig returned, or NoRef

kvars == <<heap, before, updatedConfig>>

\* the variables of the library functions studied on their own
\* computeHash: the content at hand, its fingerprint once computed, and the
\* call made before this one
VARIABLES
  input,
  hexHash,
  earlier

hvars == <<input, hexHash, earlier>>

\* the plugin: which variant runs, the config files, what the plugin function
\* returned and on what grounds, its config and hashes in memory, the
\* dispatches under way, whether it made a transport call since it started,
\* how many messages its last step showed, for each repository the
\* fingerprint of the content its secret holds, and whether so far every
\* dispatch returned before the process ended and every save succeeded
VARIABLES
  variant,
  configFiles,
  returned,
  ghAuthed,
  authChecked,
  pluginConfig,
  configPath,
  currentConfig,
  currentHashes,
  jobs,
  called,
  remote,
  intact,
  lastToast,
  nRestarts,
  clean,
  armed

pvars == <<variant, configFiles, returned, ghAuthed, authChecked, pluginConfig,
           configPath, currentConfig, currentHashes, jobs, called, lastToast,
           nRestarts, clean, armed, remote, intact>>

ovars == <<cvars, kvars, hvars, pvars>>

vars == <<wvars, svars, ovars>>

\* the sequences over S of length up to n
RECURSIVE SeqsUpTo(_, _)
SeqsUpTo(S, n) ==
  IF n = 0 THEN {<<>>}
  ELSE LET shorter == SeqsUpTo(S, n - 1)
       IN shorter \cup { Append(q, x) : q \in { r \in shorter : Len(r) = n - 1 }, x \in S }

\* ids of the handleChange invocations in flight
InFlight == { e.id : e \in evals }

\* a handle the runtime has not handed out among `used`
FreshId(used) == CHOOSE i \in 1..(Cardinality(used) + 1) : i \notin used

\* one callback invocation, as the caller sees it; `error` is what onError was
\* given ("read", "parse", "callback", "watcher") and, for onCredentialsChange,
\* whether the callback returned ("none") or threw ("threw")
Call(cb, credentials, raw, hash, error) ==
  [cb |-> cb, credentials |-> credentials, raw |-> raw, hash |-> hash, error |-> error]

ChangeCalls(calls) == { i \in 1..Len(calls) : calls[i].cb = "onCredentialsChange" }
ErrorCalls(calls) == { i \in 1..Len(calls) : calls[i].cb = "onError" }

\* ----------------------------------------------------------- handleChange
\* a handleChange that never stores the fingerprint it computed
HandleChangeNoStore(readOk, content, lh, cbThrows) ==
  IF ~readOk
    THEN [lastHash |-> lh,
          calls |-> <<Call("onError", NoContent, NoContent, NoHash, "read")>>]
  ELSE LET currentHash == computeHash(content) IN
    IF currentHash = lh
      THEN [lastHash |-> lh, calls |-> <<>>]
    ELSE IF ~JSONValid(content)
      THEN [lastHash |-> lh,
            calls |-> <<Call("onError", NoContent, NoContent, NoHash, "parse")>>]
    ELSE [lastHash |-> lh,
          calls |-> <<Call("onCredentialsChange", JSONParse(content), content, currentHash, "none")>>]

\* a handleChange that hands the previously stored fingerprint to the callback
HandleChangeOldHash(readOk, content, lh, cbThrows) ==
  IF ~readOk
    THEN [lastHash |-> lh,
          calls |-> <<Call("onError", NoContent, NoContent, NoHash, "read")>>]
  ELSE LET currentHash == computeHash(content) IN
    IF currentHash = lh
      THEN [lastHash |-> lh, calls |-> <<>>]
    ELSE IF ~JSONValid(content)
      THEN [lastHash |-> currentHash,
            calls |-> <<Call("onError", NoContent, NoContent, NoHash, "parse")>>]
    ELSE [lastHash |-> currentHash,
          calls |-> <<Call("onCredentialsChange", JSONParse(content), content, lh, "none")>>]

\* a handleChange that hands the raw content to onCredentialsChange before it
\* decodes it
HandleChangeNotifyFirst(readOk, content, lh, cbThrows) ==
  IF ~readOk
    THEN [lastHash |-> lh,
          calls |-> <<Call("onError", NoContent, NoContent, NoHash, "read")>>]
  ELSE LET currentHash == computeHash(content) IN
    IF currentHash = lh
      THEN [lastHash |-> lh, calls |-> <<>>]
    ELSE IF ~JSONValid(content)
      THEN [lastHash |-> currentHash,
            calls |-> <<Call("onCredentialsChange", NoContent, content, currentHash, "none"),
                        Call("onError", NoContent, NoContent, NoHash, "parse")>>]
    ELSE IF cbThrows
      THEN [lastHash |-> currentHash,
            calls |-> <<Call("onCredentialsChange", JSONParse(content), content, currentHash, "threw"),
                        Call("onError", NoContent, NoContent, NoHash, "callback")>>]
    ELSE [lastHash |-> currentHash,
          calls |-> <<Call("onCredentialsChange", JSONParse(content), content, currentHash, "none")>>]

\* a handleChange that reports a decode failure to onError twice
HandleChangeErrorTwice(readOk, content, lh, cbThrows) ==
  IF ~readOk
    THEN [lastHash |-> lh,
          calls |-> <<Call("onError", NoContent, NoContent, NoHash, "read")>>]
  ELSE LET currentHash == computeHash(content) IN
    IF currentHash = lh
      THEN [lastHash |-> lh, calls |-> <<>>]
    ELSE IF ~JSONValid(content)
      THEN [lastHash |-> currentHash,
            calls |-> <<Call("onError", NoContent, NoContent, NoHash, "parse"),
                        Call("onError", NoContent, NoContent, NoHash, "parse")>>]
    ELSE IF cbThrows
      THEN [lastHash |-> currentHash,
            calls |-> <<Call("onCredentialsChange", JSONParse(content), content, currentHash, "threw"),
                        Call("onError", NoContent, NoContent, NoHash, "callback")>>]
    ELSE [lastHash |-> currentHash,
          calls |-> <<Call("onCredentialsChange", JSONParse(content), content, currentHash, "none")>>]

\* a handleChange that invokes onCredentialsChange after its try block: an
\* exception of the callback is not caught and no onError follows
HandleChangeUnguardedCallback(readOk, content, lh, cbThrows) ==
  IF ~readOk
    THEN [lastHash |-> lh,
          calls |-> <<Call("onError", NoContent, NoContent, NoHash, "read")>>]
  ELSE LET currentHash == computeHash(content) IN
    IF currentHash = lh
      THEN [lastHash |-> lh, calls |-> <<>>]
    ELSE IF ~JSONValid(content)
      THEN [lastHash |-> currentHash,
            calls |-> <<Call("onError", NoContent, NoContent, NoHash, "parse")>>]
    ELSE [lastHash |-> currentHash,
          calls |-> <<Call("onCredentialsChange", JSONParse(content), content, currentHash,
                           IF cbThrows THEN "threw" ELSE "none")>>]

\* handleChange from the point where readFile has settled: readOk says whether
\* it resolved, content is what it resolved to, lh is lastHash at that moment,
\* cbThrows says whether the caller's onCredentialsChange throws.
HandleChangeResume(readOk, content, lh, cbThrows) ==
  IF ~readOk
    THEN [lastHash |-> lh,
          calls |-> <<Call("onError", NoContent, NoContent, NoHash, "read")>>]
  ELSE LET currentHash == computeHash(content) IN
    IF currentHash = lh
      THEN [lastHash |-> lh, calls |-> <<>>]
    ELSE IF ~JSONValid(content)
      THEN [lastHash |-> currentHash,
            calls |-> <<Call("onError", NoContent, NoContent, NoHash, "parse")>>]
    ELSE IF cbThrows
      THEN [lastHash |-> currentHash,
            calls |-> <<Call("onCredentialsChange", JSONParse(content), content, currentHash, "threw"),
                        Call("onError", NoContent, NoContent, NoHash, "callback")>>]
    ELSE [lastHash |-> currentHash,
          calls |-> <<Call("onCredentialsChange", JSONParse(content), content, currentHash, "none")>>]

\* ------------------------------------------------------- debouncedHandler
\* clearTimeout(handle) on the runtime's timer table
ClearTimeout(ts, handle) == { t \in ts : t.id # handle }

\* setTimeout(handleChange, ms) on the runtime's timer table; `behind` are the
\* evaluations in flight at this moment
SetTimeout(ts, id, ms, behind) ==
  ts \cup {[id |-> id, left |-> ms, cur |-> TRUE, behind |-> behind]}

\* a debouncedHandler that arms the timer without the delay
DebouncedHandlerNoDelay(ts, dt, id, ms, behind) ==
  [timers |-> SetTimeout(IF dt # NoTimer THEN ClearTimeout(ts, dt) ELSE ts, id, 0, behind),
   debounceTimer |-> id]

\* a debouncedHandler that does not cancel the pending timer
DebouncedHandlerNoClear(ts, dt, id, ms, behind) ==
  [timers |-> SetTimeout(ts, id, ms, behind), debounceTimer |-> id]

\* debouncedHandler: cancel the timer debounceTimer names, arm a new one
DebouncedHandler(ts, dt, id, ms, behind) ==
  [timers |-> SetTimeout(IF dt # NoTimer THEN ClearTimeout(ts, dt) ELSE ts, id, ms, behind),
   debounceTimer |-> id]

\* a stop function that closes the watcher and leaves the timer armed
StopHandleNoClear(ts, dt, cl) ==
  [timers |-> ts, closed |-> TRUE, raised |-> FALSE]

\* a stop function that throws when the watcher is closed already
StopHandleOnce(ts, dt, cl) ==
  IF cl THEN [timers |-> ts, closed |-> TRUE, raised |-> TRUE]
  ELSE [timers |-> (IF dt # NoTimer THEN ClearTimeout(ts, dt) ELSE ts),
        closed |-> TRUE, raised |-> FALSE]

\* the function watchCredentials returns; cl says whether the watcher is
\* closed already. clearTimeout of a handle that fired or was cleared and
\* close() of a closed watcher do nothing, and neither throws.
StopHandle(ts, dt, cl) ==
  [timers |-> (IF dt # NoTimer THEN ClearTimeout(ts, dt) ELSE ts),
   closed |-> TRUE, raised |-> FALSE]

\* a watcher that ignores options.storedHash
InitialLastHashNull(storedHash) == NoHash

\* let lastHash = storedHash ?? null
InitialLastHash(storedHash) == storedHash

\* a watcher that does not report the file it finds at start
IgnoreInitialTrue == TRUE

\* chokidar option ignoreInitial: false, the file found at start is an "add"
IgnoreInitial == FALSE

\* -------------------------------------------------------------------- Init
WatcherInit ==
  /\ file \in Contents
  /\ rawPending = ~IgnoreInitial
  /\ closed = FALSE
  /\ debounceMs \in 1..MaxDebounce
  /\ baseline \in {NoHash} \cup { computeHash(c) : c \in Contents }
  /\ lastHash = InitialLastHash(baseline)
  /\ debounceTimer = NoTimer
  /\ timers = {}
  /\ evals = {}
  /\ nWrites = 0
  /\ quiet = 0
  /\ changed = FALSE
  /\ nChange = 0
  /\ lastCalls = <<>>
  /\ burst = [len |-> 0, evals |-> 0, cbs |-> 0]
  /\ notified = NoHash
  /\ nStops = 0

\* ----------------------------------------------------------------- actions
\* the environment writes the file (new content, identical re-write or touch)
DoWrite(c) ==
  /\ nWrites' = nWrites + 1
  /\ file' = c
  /\ changed' = (changed \/ c # file)
  /\ rawPending' = ~closed
  /\ nChange' = IF changed' THEN 0 ELSE nChange
  /\ lastCalls' = <<>>
  /\ UNCHANGED <<closed, debounceMs, lastHash, debounceTimer, timers, evals,
                 quiet, baseline, notified, nStops, burst>>
  /\ UNCHANGED <<svars, ovars>>

Write(c) ==
  /\ nWrites < MaxWrites
  /\ DoWrite(c)

\* a write of a run that studies bursts
BurstWrite(c) ==
  /\ nWrites < MaxBurstWrites
  /\ DoWrite(c)

\* chokidar delivers "add" or "change": watcher.on(..., debouncedHandler)
RawEvent ==
  /\ rawPending
  /\ ~closed
  /\ LET newBurst == (burst.len = 0 \/ quiet >= debounceMs)
         old == IF newBurst THEN { [t EXCEPT !.cur = FALSE] : t \in timers } ELSE timers
         id == FreshId({ t.id : t \in timers } \cup {debounceTimer})
         r == DebouncedHandler(old, debounceTimer, id, debounceMs, InFlight)
     IN /\ timers' = r.timers
        /\ debounceTimer' = r.debounceTimer
        /\ evals' = IF newBurst THEN { [e EXCEPT !.cur = FALSE] : e \in evals } ELSE evals
        /\ burst' = IF newBurst THEN [len |-> 1, evals |-> 0, cbs |-> 0]
                    ELSE [burst EXCEPT !.len = @ + 1]
  /\ rawPending' = FALSE
  /\ quiet' = 0
  /\ lastCalls' = <<>>
  /\ UNCHANGED <<file, closed, debounceMs, lastHash, nWrites, baseline, notified, nStops,
                 changed, nChange>>
  /\ UNCHANGED <<svars, ovars>>

\* one tick of time passes
Tick ==
  /\ \/ quiet < debounceMs
     \/ \E t \in timers : t.left > 0
  /\ timers' = { [t EXCEPT !.left = IF @ > 0 THEN @ - 1 ELSE 0] : t \in timers }
  /\ quiet' = IF quiet < debounceMs THEN quiet + 1 ELSE quiet
  /\ lastCalls' = <<>>
  /\ UNCHANGED <<file, rawPending, closed, debounceMs, lastHash, debounceTimer, evals,
                 nWrites, baseline, notified, nStops, changed, nChange, burst>>
  /\ UNCHANGED <<svars, ovars>>

\* the runtime runs a due timer: handleChange starts and awaits readFile
TimerFire(t) ==
  /\ t.left = 0
  /\ Cardinality(evals) < MaxInFlight
  /\ timers' = timers \ {t}
  /\ evals' = evals \cup {[id |-> FreshId(InFlight), phase |-> "reading",
                           content |-> NoContent, cur |-> t.cur, behind |-> t.behind # {}]}
  /\ burst' = IF t.cur THEN [burst EXCEPT !.evals = @ + 1] ELSE burst
  /\ lastCalls' = <<>>
  /\ UNCHANGED <<file, rawPending, closed, debounceMs, lastHash, debounceTimer,
                 nWrites, quiet, baseline, notified, nStops, changed, nChange>>
  /\ UNCHANGED <<svars, ovars>>

\* readFile of an evaluation in flight settles: it resolves to the content the
\* file has at that moment, or it rejects
ReadFile(e, ok) ==
  /\ e.phase = "reading"
  /\ evals' = (evals \ {e}) \cup
       {IF ok THEN [e EXCEPT !.phase = "read", !.content = file]
              ELSE [e EXCEPT !.phase = "failed"]}
  /\ lastCalls' = <<>>
  /\ UNCHANGED <<file, rawPending, closed, debounceMs, lastHash, debounceTimer, timers,
                 nWrites, quiet, baseline, notified, nStops, changed, nChange, burst>>
  /\ UNCHANGED <<svars, ovars>>

\* handleChange resumes after the await and runs to its end
HandleChange(e, cbThrows) ==
  /\ e.phase # "reading"
  /\ LET r == HandleChangeResume(e.phase = "read", e.content, lastHash, cbThrows)
         n == Cardinality(ChangeCalls(r.calls))
     IN /\ lastHash' = r.lastHash
        /\ nChange' = IF changed THEN 0 ELSE nChange + n
        /\ lastCalls' = r.calls
        /\ notified' = IF n > 0 THEN r.calls[1].hash ELSE notified
        /\ burst' = IF e.cur THEN [burst EXCEPT !.cbs = @ + n] ELSE burst
  /\ evals' = evals \ {e}
  /\ timers' = { [t EXCEPT !.behind = @ \ {e.id}] : t \in timers }
  /\ UNCHANGED <<file, rawPending, closed, debounceMs, debounceTimer,
                 nWrites, quiet, baseline, changed, nStops>>
  /\ UNCHANGED <<svars, ovars>>

\* the caller invokes the function watchCredentials returned
DoStop ==
  /\ LET r == StopHandle(timers, debounceTimer, closed)
     IN /\ timers' = r.timers
        /\ closed' = r.closed
  /\ rawPending' = FALSE
  /\ lastCalls' = <<>>
  /\ UNCHANGED <<file, debounceMs, lastHash, debounceTimer, evals, nWrites, quiet,
                 baseline, notified, changed, nChange, burst>>
  /\ UNCHANGED <<svars, ovars>>

Stop ==
  /\ DoStop
  /\ UNCHANGED nStops

\* a call of the stop function in a run that counts them
StopCounted ==
  /\ nStops < MaxStops
  /\ DoStop
  /\ nStops' = nStops + 1

\* chokidar reports an error of its own: watcher.on("error", callbacks.onError)
WatcherError ==
  /\ ~closed
  /\ lastCalls' = <<Call("onError", NoContent, NoContent, NoHash, "watcher")>>
  /\ UNCHANGED <<file, rawPending, closed, debounceMs, lastHash, debounceTimer, timers,
                 evals, nWrites, quiet, baseline, notified, nStops, changed, nChange, burst>>
  /\ UNCHANGED <<svars, ovars>>

\* ------------------------------------------------------------ computeHash
\* String contents are sequences of UTF-16 code units, as JavaScript strings
\* are; a 32-bit word is a pair <<high half, low half>> of 16-bit numbers.

\* update(content) of a string hashes its UTF-8 encoding: a surrogate pair is
\* one code point of four bytes, a lone surrogate is encoded as U+FFFD
RECURSIVE Utf8(_)
Utf8(units) ==
  IF units = <<>> THEN <<>>
  ELSE LET u == units[1] IN
    IF u < 128 THEN <<u>> \o Utf8(Tail(units))
    ELSE IF u < 2048 THEN <<192 + (u \div 64), 128 + (u % 64)>> \o Utf8(Tail(units))
    ELSE IF u >= 55296 /\ u <= 56319 /\ Len(units) >= 2
            /\ (IF Len(units) >= 2 THEN units[2] >= 56320 /\ units[2] <= 57343 ELSE FALSE)
      THEN LET cp == 65536 + (u - 55296) * 1024 + (units[2] - 56320)
           IN <<240 + (cp \div 262144), 128 + ((cp \div 4096) % 64),
                128 + ((cp \div 64) % 64), 128 + (cp % 64)>> \o Utf8(Tail(Tail(units)))
    ELSE IF u >= 55296 /\ u <= 57343 THEN <<239, 191, 189>> \o Utf8(Tail(units))
    ELSE <<224 + (u \div 4096), 128 + ((u \div 64) % 64), 128 + (u % 64)>> \o Utf8(Tail(units))

\* 2^n for n in 0..16
Pow2Table ==
  <<1, 2, 4, 8, 16, 32, 64, 128, 256, 512, 1024, 2048, 4096, 8192, 16384, 32768, 65536>>

Pow2(n) == Pow2Table[n + 1]

\* bitwise exclusive or and bitwise and of two numbers of `bits` bits
RECURSIVE XorBits(_, _, _)
XorBits(a, b, bits) ==
  IF bits = 0 THEN 0
  ELSE ((a + b) % 2) + 2 * XorBits(a \div 2, b \div 2, bits - 1)

RECURSIVE AndBits(_, _, _)
AndBits(a, b, bits) ==
  IF bits = 0 THEN 0
  ELSE ((a % 2) * (b % 2)) + 2 * AndBits(a \div 2, b \div 2, bits - 1)

\* the two operations tabulated, on half bytes and from these on bytes
Xor4 == [a \in 0..15 |-> [b \in 0..15 |-> XorBits(a, b, 4)]]
And4 == [a \in 0..15 |-> [b \in 0..15 |-> AndBits(a, b, 4)]]

Xor8 ==
  [a \in 0..255 |-> [b \in 0..255 |->
    Xor4[a \div 16][b \div 16] * 16 + Xor4[a % 16][b % 16]]]
And8 ==
  [a \in 0..255 |-> [b \in 0..255 |->
    And4[a \div 16][b \div 16] * 16 + And4[a % 16][b % 16]]]

Xor16(a, b) == Xor8[a \div 256][b \div 256] * 256 + Xor8[a % 256][b % 256]
And16(a, b) == And8[a \div 256][b \div 256] * 256 + And8[a % 256][b % 256]

WXor(x, y) == <<Xor16(x[1], y[1]), Xor16(x[2], y[2])>>
WAnd(x, y) == <<And16(x[1], y[1]), And16(x[2], y[2])>>
WNot(x) == <<65535 - x[1], 65535 - x[2]>>

\* addition modulo 2^32
WAdd(x, y) ==
  LET lo == x[2] + y[2]
      hi == x[1] + y[1] + (lo \div 65536)
  IN <<hi % 65536, lo % 65536>>

\* rotate right and shift right by n bits
RECURSIVE Rotr(_, _)
Rotr(x, n) ==
  IF n >= 16 THEN Rotr(<<x[2], x[1]>>, n - 16)
  ELSE IF n = 0 THEN x
  ELSE LET p == Pow2(n)
           q == Pow2(16 - n)
       IN <<(x[1] \div p) + (x[2] % p) * q, (x[2] \div p) + (x[1] % p) * q>>

Shr(x, n) ==
  LET p == Pow2(n)
      q == Pow2(16 - n)
  IN <<x[1] \div p, (x[2] \div p) + (x[1] % p) * q>>

Sha256K ==
  << <<17034, 12184>>, <<28983, 17553>>, <<46528, 64463>>, <<59829, 56229>>,
     <<14678, 49755>>, <<23025, 4593>>, <<37439, 33444>>, <<43804, 24277>>,
     <<55303, 43672>>, <<4739, 23297>>, <<9265, 34238>>, <<21772, 32195>>,
     <<29374, 23924>>, <<32990, 45566>>, <<39900, 1703>>, <<49563, 61812>>,
     <<58523, 27073>>, <<61374, 18310>>, <<4033, 40390>>, <<9228, 41420>>,
     <<11753, 11375>>, <<19060, 33962>>, <<23728, 43484>>, <<30457, 35034>>,
     <<38974, 20818>>, <<43057, 50797>>, <<45059, 10184>>, <<48985, 32711>>,
     <<50912, 3059>>, <<54695, 37191>>, <<1738, 25425>>, <<5161, 10599>>,
     <<10167, 2693>>, <<11803, 8504>>, <<19756, 28156>>, <<21304, 3347>>,
     <<25866, 29524>>, <<30314, 2747>>, <<33218, 51502>>, <<37490, 11397>>,
     <<41663, 59553>>, <<43034, 26187>>, <<49739, 35696>>, <<51052, 20899>>,
     <<53650, 59417>>, <<54937, 1572>>, <<62478, 13701>>, <<4202, 41072>>,
     <<6564, 49430>>, <<7735, 27656>>, <<10056, 30540>>, <<13488, 48309>>,
     <<14620, 3251>>, <<20184, 43594>>, <<23452, 51791>>, <<26670, 28659>>,
     <<29839, 33518>>, <<30885, 25455>>, <<33992, 30740>>, <<36039, 520>>,
     <<37054, 65530>>, <<42064, 27883>>, <<48889, 41975>>, <<50801, 30962>> >>

Sha256H0 ==
  << <<27145, 58983>>, <<47975, 44677>>, <<15470, 62322>>, <<42319, 62778>>,
     <<20750, 21119>>, <<39685, 26764>>, <<8067, 55723>>, <<23520, 52505>> >>

\* the message with its padding: 0x80, zeros up to 56 modulo 64, and the
\* length in bits as 8 bytes
RECURSIVE Zeros(_)
Zeros(n) == IF n = 0 THEN <<>> ELSE <<0>> \o Zeros(n - 1)

Sha256Pad(bytes) ==
  LET bits == 8 * Len(bytes)
      z == (119 - (Len(bytes) % 64)) % 64
  IN bytes \o <<128>> \o Zeros(z) \o
     <<0, 0, 0, 0, (bits \div 16777216) % 256, (bits \div 65536) % 256,
       (bits \div 256) % 256, bits % 256>>

\* the 16 words of the block that starts after byte `off`
BlockWords(m, off) ==
  [i \in 1..16 |-> <<m[off + 4 * i - 3] * 256 + m[off + 4 * i - 2],
                     m[off + 4 * i - 1] * 256 + m[off + 4 * i]>>]

\* the message schedule: 64 words from the 16 of the block
RECURSIVE Schedule(_)
Schedule(w) ==
  IF Len(w) = 64 THEN w
  ELSE LET t == Len(w) + 1
           s0 == WXor(WXor(Rotr(w[t - 15], 7), Rotr(w[t - 15], 18)), Shr(w[t - 15], 3))
           s1 == WXor(WXor(Rotr(w[t - 2], 17), Rotr(w[t - 2], 19)), Shr(w[t - 2], 10))
           wt == WAdd(WAdd(w[t - 16], s0), WAdd(w[t - 7], s1))
       IN IF wt = wt THEN Schedule(Append(w, wt)) ELSE w

\* rounds t..64 of the compression function on the working variables v
RECURSIVE Rounds(_, _, _)
Rounds(v, w, t) ==
  IF t > 64 THEN v
  ELSE LET a == v[1]
           e == v[5]
           S1 == WXor(WXor(Rotr(e, 6), Rotr(e, 11)), Rotr(e, 25))
           ch == WXor(WAnd(e, v[6]), WAnd(WNot(e), v[7]))
           t1 == WAdd(WAdd(WAdd(v[8], S1), WAdd(ch, Sha256K[t])), w[t])
           S0 == WXor(WXor(Rotr(a, 2), Rotr(a, 13)), Rotr(a, 22))
           mj == WXor(WXor(WAnd(a, v[2]), WAnd(a, v[3])), WAnd(v[2], v[3]))
           t2 == WAdd(S0, mj)
           nv == <<WAdd(t1, t2), a, v[2], v[3], WAdd(v[4], t1), e, v[6], v[7]>>
       IN IF nv = nv THEN Rounds(nv, w, t + 1) ELSE v

\* the hash value after the blocks that start after byte `off`
RECURSIVE Sha256Blocks(_, _, _)
Sha256Blocks(m, off, h) ==
  IF off >= Len(m) THEN h
  ELSE LET w == Schedule(BlockWords(m, off))
           v == Rounds(h, w, 1)
       IN Sha256Blocks(m, off + 64, [i \in 1..8 |-> WAdd(h[i], v[i])])

Sha256(bytes) == Sha256Blocks(Sha256Pad(bytes), 0, Sha256H0)

\* digest("hex"): two lowercase hexadecimal digits per byte
HexDigits == <<"0", "1", "2", "3", "4", "5", "6", "7", "8", "9", "a", "b", "c", "d", "e", "f">>

Hex16(n) ==
  <<HexDigits[(n \div 4096) + 1], HexDigits[((n \div 256) % 16) + 1],
    HexDigits[((n \div 16) % 16) + 1], HexDigits[(n % 16) + 1]>>

RECURSIVE HexOfWords(_)
HexOfWords(ws) ==
  IF ws = <<>> THEN <<>>
  ELSE Hex16(ws[1][1]) \o Hex16(ws[1][2]) \o HexOfWords(Tail(ws))

\* the contents of src/lib/watcher.test.ts, as UTF-16 code units
\* {"anthropic":{"type":"oauth","access":"token123"}}
TokenContent ==
  <<123, 34, 97, 110, 116, 104, 114, 111, 112, 105, 99, 34, 58, 123, 34,
    116, 121, 112, 101, 34, 58, 34, 111, 97, 117, 116, 104, 34, 44, 34, 97,
    99, 99, 101, 115, 115, 34, 58, 34, 116, 111, 107, 101, 110, 49, 50, 51,
    34, 125, 125>>

\* {"anthropic":{"access":"token1"}}
Token1Content ==
  <<123, 34, 97, 110, 116, 104, 114, 111, 112, 105, 99, 34, 58, 123, 34, 97,
    99, 99, 101, 115, 115, 34, 58, 34, 116, 111, 107, 101, 110, 49, 34, 125,
    125>>

\* {"anthropic":{"access":"token2"}}
Token2Content ==
  <<123, 34, 97, 110, 116, 104, 114, 111, 112, 105, 99, 34, 58, 123, 34, 97,
    99, 99, 101, 115, 115, 34, 58, 34, 116, 111, 107, 101, 110, 50, 34, 125,
    125>>

\* test content
TestContent ==
  <<116, 101, 115, 116, 32, 99, 111, 110, 116, 101, 110, 116>>

\* the empty string
EmptyContent ==
  <<>>

\* {"name":"<U+65E5 U+672C U+8A9E>","emoji":"<U+1F389>"}: the emoji is the
\* surrogate pair 55356, 57225
UnicodeContent ==
  <<123, 34, 110, 97, 109, 101, 34, 58, 34, 26085, 26412, 35486, 34, 44, 34,
    101, 109, 111, 106, 105, 34, 58, 34, 55356, 57225, 34, 125>>

\* {"key":"value"}
CompactContent ==
  <<123, 34, 107, 101, 121, 34, 58, 34, 118, 97, 108, 117, 101, 34, 125>>

\* { "key": "value" }
SpacedContent ==
  <<123, 32, 34, 107, 101, 121, 34, 58, 32, 34, 118, 97, 108, 117, 101, 34,
    32, 125>>

TestedContents ==
  { TokenContent, Token1Content, Token2Content, TestContent, EmptyContent,
    UnicodeContent, CompactContent, SpacedContent }

\* a content of more than one 64-byte block
LongContent == TokenContent \o SpacedContent

\* the code units short contents are made of: a space, U+00E9 (two bytes),
\* and the two halves of a surrogate pair, which alone are lone surrogates
HashAlphabet == { 32, 233, 55356, 57225 }

HashInputs ==
  TestedContents \cup { LongContent } \cup SeqsUpTo(HashAlphabet, MaxHashLen)

NoDigest == <<>>
NoCall == [content |-> <<>>, hash |-> NoDigest]

\* a fingerprint that ignores spaces
computeHashCompact(content) ==
  HexOfWords(Sha256(Utf8(SelectSeq(content, LAMBDA u : u # 32))))

\* computeHash as it is: createHash("sha256").update(content).digest("hex")
computeHashHex(content) == HexOfWords(Sha256(Utf8(content)))

HashIdle ==
  /\ input = <<>>
  /\ hexHash = NoDigest
  /\ earlier = NoCall

HashInit ==
  /\ input \in HashInputs
  /\ hexHash = NoDigest
  /\ earlier = NoCall

\* const hash = computeHash(content)
ComputeHash ==
  /\ hexHash = NoDigest
  /\ hexHash' = computeHashHex(input)
  /\ UNCHANGED <<input, earlier>>
  /\ UNCHANGED <<wvars, svars, cvars, kvars, pvars>>

\* the next content to fingerprint; the call before it is remembered
NextContent ==
  /\ hexHash # NoDigest
  /\ earlier = NoCall
  /\ \E c \in HashInputs : input' = c
  /\ earlier' = [content |-> input, hash |-> hexHash]
  /\ hexHash' = NoDigest
  /\ UNCHANGED <<wvars, svars, cvars, kvars, pvars>>

\* ------------------------------------------------------------ mergeConfig
\* a property that is present with the value undefined
Undefined == "<undefined>"

DEFAULT_CONFIG ==
  [enabled |-> TRUE,
   credentialsPath |-> "~/.local/share/opencode/auth.json",
   secretName |-> "OPENCODE_AUTH_JSON",
   repositories |-> <<>>,
   debounceMs |-> 1000]

\* the values a property of a partial config may have in the runs
FieldValues ==
  [secretName |-> {"OPENCODE_AUTH_JSON", "MY_SECRET", Undefined},
   repositories |-> {<<>>, <<"o/a">>},
   debounceMs |-> {1000, 500},
   authFileHashes |-> {[r \in {"o/a"} |-> 6760], [r \in {"o/a"} |-> 27714]}]

\* the object `f` with the property k set to v
WithProperty(f, k, v) == [x \in DOMAIN f \cup {k} |-> IF x = k THEN v ELSE f[x]]

\* the partial configs over the properties `keys`: each property is absent or
\* has one of its values
RECURSIVE ConfigsOver(_)
ConfigsOver(keys) ==
  IF keys = <<>> THEN {<<>>}
  ELSE LET rest == ConfigsOver(Tail(keys))
       IN rest \cup { WithProperty(f, keys[1], v) : f \in rest, v \in FieldValues[keys[1]] }

PartialConfigs == ConfigsOver(<<"secretName", "repositories", "debounceMs", "authFileHashes">>)

\* an object spread that lets the object spread first win
SpreadKeepFirst(a, b) ==
  [k \in DOMAIN a \cup DOMAIN b |-> IF k \in DOMAIN a THEN a[k] ELSE b[k]]

\* { ...a, ...b }: every own property of a, then every own property of b over it
Spread(a, b) ==
  [k \in DOMAIN a \cup DOMAIN b |-> IF k \in DOMAIN b THEN b[k] ELSE a[k]]

\* mergeConfig: { ...DEFAULT_CONFIG, ...existing, ...updates }
mergeConfig(e, u) == Spread(Spread(DEFAULT_CONFIG, e), u)

ConfigIdle ==
  /\ existing = <<>>
  /\ updates = <<>>
  /\ merged = <<>>
  /\ nMerges = 0

\* ------------------------------------------------------ addPluginToConfig
NoRef == 0

\* the reference of the config object the wizard passes in
ConfigRef == 1

\* plugin names, as sequences of parts: "@activade/opencode-auth-sync",
\* "opencode-auth-sync@latest", "other-plugin"
PLUGIN_NAME == <<"@activade/", "opencode-auth-sync">>
PluginNames == { PLUGIN_NAME, <<"opencode-auth-sync", "@latest">>, <<"other-plugin">> }

\* p.includes("opencode-auth-sync")
Includes(p) == \E i \in 1..Len(p) : p[i] = "opencode-auth-sync"

\* config.plugin || []: the array the config refers to, when it has one
HasPlugins(h, config) == "plugin" \in DOMAIN h[config]

\* isPluginInstalled
isPluginInstalled(h, config) ==
  IF HasPlugins(h, config)
    THEN \E i \in 1..Len(h[h[config].plugin]) : Includes(h[h[config].plugin][i])
    ELSE FALSE

\* addPluginToConfig: `plugins` is the array of the config itself, or a new
\* empty one; PLUGIN_NAME is pushed onto it unless a plugin of that name is
\* there; a new object { ...config, plugin: plugins } is returned.
addPluginToConfig(h, config) ==
  LET fresh == ~HasPlugins(h, config)
      h1 == IF fresh THEN Append(h, <<>>) ELSE h
      plugins == IF fresh THEN Len(h1) ELSE h[config].plugin
      h2 == IF ~isPluginInstalled(h, config)
              THEN [h1 EXCEPT ![plugins] = Append(@, PLUGIN_NAME)]
              ELSE h1
      h3 == Append(h2, WithProperty(h2[config], "plugin", plugins))
  IN [heap |-> h3, result |-> Len(h3)]

CliIdle ==
  /\ heap = <<>>
  /\ before = <<>>
  /\ updatedConfig = NoRef

\* the opencode config the wizard read: with or without a model, with or
\* without a plugin array of up to MaxPlugins names
CliInit ==
  /\ \E withModel \in BOOLEAN :
       LET base == IF withModel THEN [model |-> "claude-3"] ELSE <<>>
       IN \/ heap = <<base>>
          \/ \E ps \in SeqsUpTo(PluginNames, MaxPlugins) :
               heap = <<WithProperty(base, "plugin", 2), ps>>
  /\ before = heap
  /\ updatedConfig = NoRef

\* the wizard calls addPluginToConfig(opencodeConfig)
AddPluginToConfig ==
  /\ updatedConfig = NoRef
  /\ LET r == addPluginToConfig(heap, ConfigRef)
     IN /\ heap' = r.heap
        /\ updatedConfig' = r.result
  /\ UNCHANGED before
  /\ UNCHANGED <<wvars, svars, cvars, hvars, pvars>>

ConfigInit ==
  /\ existing \in PartialConfigs
  /\ updates \in PartialConfigs
  /\ merged = existing
  /\ nMerges = 0

\* the wizard merges the user's answers into the config at hand
MergeConfig ==
  /\ nMerges < MaxMerges
  /\ merged' = mergeConfig(merged, updates)
  /\ nMerges' = nMerges + 1
  /\ UNCHANGED <<existing, updates>>
  /\ UNCHANGED <<wvars, svars, kvars, hvars, pvars>>

\* ------------------------------------------------------------- dispatcher
\* the targets of the configuration
Repos == {"o/a", "o/b"}
\* diagnostic texts a transport may report (stderr, response body, message)
Texts == {"", "denied"}

NoError == "<undefined>"
NoSummary == [total |-> -1]

\* what `gh secret set` can do: exit with a code and a stderr text, or throw
GhOutcomes ==
  { [kind |-> "exit", code |-> 0, text |-> ""] }
    \cup { [kind |-> "exit", code |-> 1, text |-> t] : t \in Texts }
    \cup { [kind |-> "throw", code |-> -1, text |-> t] : t \in Texts }

\* what githubFetch can return
FetchOutcomes ==
  { [ok |-> TRUE, status |-> 200, data |-> TRUE, error |-> NoError],
    [ok |-> TRUE, status |-> 204, data |-> FALSE, error |-> NoError] }
    \cup { [ok |-> FALSE, status |-> 404, data |-> FALSE, error |-> t] : t \in Texts }
    \cup { [ok |-> FALSE, status |-> 0, data |-> FALSE, error |-> t] : t \in Texts }

SyncResult(repository, success, error) ==
  [repository |-> repository, success |-> success, error |-> error]

\* `HTTP ${status}`
HttpStatusText(status) == IF status = 404 THEN "HTTP 404" ELSE "HTTP 0"

\* result.error || `HTTP ${result.status}`
ErrorOrStatus(r) == IF r.error # "" /\ r.error # NoError THEN r.error ELSE HttpStatusText(r.status)

\* syncToRepoGh, from the settlement of the gh command
SyncToRepoGh(repository, o) ==
  IF o.kind = "throw" THEN SyncResult(repository, FALSE, o.text)
  ELSE SyncResult(repository, o.code = 0, IF o.code # 0 THEN o.text ELSE NoError)

\* getRepoPublicKey
GetRepoPublicKey(r) ==
  IF ~r.ok THEN [ok |-> FALSE, key |-> FALSE, error |-> ErrorOrStatus(r)]
  ELSE [ok |-> TRUE, key |-> r.data, error |-> NoError]

\* length of a list of results with / without success
RECURSIVE CountSuccess(_, _)
CountSuccess(rs, want) ==
  IF rs = <<>> THEN 0
  ELSE (IF rs[1].success = want THEN 1 ELSE 0) + CountSuccess(Tail(rs), want)

\* a summary that counts every result as a success
SummarizeCountsResults(repos, rs) ==
  [total |-> Len(repos), successful |-> Len(rs),
   failed |-> CountSuccess(rs, FALSE), results |-> rs]

\* a summary that reports an empty target list as one failure
SummarizeEmptyIsError(repos, rs) ==
  IF repos = <<>>
    THEN [total |-> 0, successful |-> 0, failed |-> 1,
          results |-> <<SyncResult("", FALSE, "No repositories configured")>>]
    ELSE [total |-> Len(repos), successful |-> CountSuccess(rs, TRUE),
          failed |-> CountSuccess(rs, FALSE), results |-> rs]

\* the summary both loops return
Summarize(repos, rs) ==
  [total |-> Len(repos), successful |-> CountSuccess(rs, TRUE),
   failed |-> CountSuccess(rs, FALSE), results |-> rs]

\* a missing-token branch that counts the targets as failed but lists none
MissingTokenNoResults(repos) ==
  [total |-> Len(repos), successful |-> 0, failed |-> Len(repos), results |-> <<>>]

\* the summary of the missing-token branch of syncToRepositories
MissingTokenSummary(repos) ==
  [total |-> Len(repos), successful |-> 0, failed |-> Len(repos),
   results |-> [i \in 1..Len(repos) |->
                  SyncResult(repos[i], FALSE, "GitHub token is required for HTTP method")]]

\* a loop that gives up at the first failed target
HasNextUntilFailure(i, repos, rs) ==
  i <= Len(repos) /\ (IF rs = <<>> THEN TRUE ELSE rs[Len(rs)].success)

\* the for-of loop over the targets: there is a next target
HasNext(i, repos, rs) == i <= Len(repos)

SyncIdle ==
  /\ method = "gh"
  /\ hasToken = FALSE
  /\ repositories = <<>>
  /\ pc = "idle"
  /\ idx = 0
  /\ results = <<>>
  /\ transport = <<>>
  /\ requests = <<>>
  /\ inFlight = 0
  /\ summary = NoSummary
  /\ settled = <<>>

\* syncToRepositories is called with a target list, a method and maybe a token
SyncInit ==
  /\ method \in {"gh", "http"}
  /\ hasToken \in BOOLEAN
  /\ repositories \in SeqsUpTo(Repos, MaxTargets)
  /\ pc = "idle"
  /\ idx = 0
  /\ results = <<>>
  /\ transport = <<>>
  /\ requests = <<>>
  /\ inFlight = 0
  /\ summary = NoSummary
  /\ settled = <<>>

\* syncToRepositories: the branch on options.method and options.githubToken
SyncToRepositories ==
  /\ pc = "idle"
  /\ IF method = "http" /\ ~hasToken
       THEN /\ summary' = MissingTokenSummary(repositories)
            /\ pc' = "returned"
            /\ idx' = idx
       ELSE /\ pc' = "loop"
            /\ idx' = 1
            /\ summary' = summary
  /\ UNCHANGED <<method, hasToken, repositories, results, transport, requests, inFlight,
                 settled>>
  /\ UNCHANGED <<wvars, ovars>>

\* an iteration of a loop that awaits its transport call begins only when the
\* call of the iteration before has settled; one that does not await begins
\* while that call is still running
NotAwaited(p) == p \in {"loop", "gh", "key", "encrypt", "put"}

\* `const result = await ...` in the loop body: the loop is between two calls
Awaited(p) == p = "loop"

\* the for-of loop takes the next target and starts its transport call
LoopStep ==
  /\ Awaited(pc)
  /\ HasNext(idx, repositories, results)
  /\ transport' = Append(transport, repositories[idx])
  /\ inFlight' = inFlight + 1
  /\ settled' = <<>>
  /\ IF method = "gh"
       THEN pc' = "gh" /\ requests' = requests
       ELSE /\ pc' = "key"
            /\ requests' = Append(requests, [verb |-> "GET", repository |-> repositories[idx]])
  /\ UNCHANGED <<method, hasToken, repositories, idx, results, summary>>
  /\ UNCHANGED <<wvars, ovars>>

\* the loop is over: the summary is computed and returned
LoopReturn ==
  /\ pc = "loop"
  /\ ~HasNext(idx, repositories, results)
  /\ summary' = Summarize(repositories, results)
  /\ pc' = "returned"
  /\ UNCHANGED <<method, hasToken, repositories, idx, results, transport, requests, inFlight,
                 settled>>
  /\ UNCHANGED <<wvars, ovars>>

\* what one step of a transport call did: it threw or not, it reported success
\* or not, and the text it gave (stderr, response body or exception message)
Step(step, threw, ok, text) == [step |-> step, threw |-> threw, ok |-> ok, text |-> text]

\* results.unshift(result): the newest result goes to the front
PushFront(result) ==
  /\ results' = <<result>> \o results
  /\ idx' = idx + 1
  /\ inFlight' = inFlight - 1
  /\ pc' = "loop"

\* results.push(result) and the next iteration
Push(result) ==
  /\ results' = Append(results, result)
  /\ idx' = idx + 1
  /\ inFlight' = inFlight - 1
  /\ pc' = "loop"

\* the gh command of the current target settles
GhSettle(o) ==
  /\ pc = "gh"
  /\ Push(SyncToRepoGh(repositories[idx], o))
  /\ settled' = Append(settled, Step("gh", o.kind = "throw", o.kind = "exit" /\ o.code = 0, o.text))
  /\ UNCHANGED <<method, hasToken, repositories, transport, requests, summary>>
  /\ UNCHANGED <<wvars, ovars>>

\* a setRepoSecretHttp that goes on to encrypt and PUT whatever the key fetch
\* returned
HttpKeyIgnoresFailure(r) ==
  /\ pc = "key"
  /\ pc' = "encrypt"
  /\ UNCHANGED <<results, idx, inFlight>>
  /\ settled' = Append(settled, Step("key", r.status = 0, r.ok, r.error))
  /\ UNCHANGED <<method, hasToken, repositories, transport, requests, summary>>
  /\ UNCHANGED <<wvars, ovars>>

\* setRepoSecretHttp: the public-key fetch of the current target settles
HttpKey(r) ==
  /\ pc = "key"
  /\ LET keyResult == GetRepoPublicKey(r)
     IN IF ~keyResult.ok \/ ~keyResult.key
          THEN Push(SyncResult(repositories[idx], FALSE,
                               "Failed to get public key: " \o
                                 (IF keyResult.error = NoError THEN "undefined" ELSE keyResult.error)))
          ELSE /\ pc' = "encrypt"
               /\ UNCHANGED <<results, idx, inFlight>>
  /\ settled' = Append(settled, Step("key", r.status = 0, r.ok, r.error))
  /\ UNCHANGED <<method, hasToken, repositories, transport, requests, summary>>
  /\ UNCHANGED <<wvars, ovars>>

\* setRepoSecretHttp: encryptSecret resolves or throws; on success the PUT is issued
HttpEncrypt(ok, message) ==
  /\ pc = "encrypt"
  /\ IF ok
       THEN /\ pc' = "put"
            /\ requests' = Append(requests, [verb |-> "PUT", repository |-> repositories[idx]])
            /\ UNCHANGED <<results, idx, inFlight>>
       ELSE /\ Push(SyncResult(repositories[idx], FALSE, "Failed to encrypt secret: " \o message))
            /\ requests' = requests
  /\ settled' = Append(settled, Step("encrypt", ~ok, ok, IF ok THEN NoError ELSE message))
  /\ UNCHANGED <<method, hasToken, repositories, transport, summary>>
  /\ UNCHANGED <<wvars, ovars>>

\* setRepoSecretHttp: the PUT of the current target settles
HttpPut(r) ==
  /\ pc = "put"
  /\ IF ~r.ok
       THEN Push(SyncResult(repositories[idx], FALSE, ErrorOrStatus(r)))
       ELSE Push(SyncResult(repositories[idx], TRUE, NoError))
  /\ settled' = Append(settled, Step("put", r.status = 0, r.ok, r.error))
  /\ UNCHANGED <<method, hasToken, repositories, transport, requests, summary>>
  /\ UNCHANGED <<wvars, ovars>>

\* ------------------------------------------------------------------ plugin
\* The plugin function (src/index.ts keeps one hash, authFileHash; the
\* variant of src/unnamed/part_003 keeps one hash per repository,
\* authFileHashes). The watcher is taken as one step per evaluation here, and
\* a dispatch as one step per target.
SingleHash == "authFileHash"
HashPerTarget == "authFileHashes"
PluginVariants == {SingleHash, HashPerTarget}

\* the two places of the config file: the project directory, then the home
\* directory
Locations == <<1, 2>>
NoPath == 0

\* a file that is not there, a file that does not parse, a file holding config
AbsentFile == [exists |-> FALSE, parses |-> FALSE, config |-> <<>>]
GarbageFile == [exists |-> TRUE, parses |-> FALSE, config |-> <<>>]
JsonFile(cfg) == [exists |-> TRUE, parses |-> TRUE, config |-> cfg]

\* the configs a user has written
UserConfigs ==
  { [repositories |-> <<"o/a", "o/b">>],
    [enabled |-> FALSE, repositories |-> <<"o/a">>] }

\* what the runs find in the project directory and in the home directory
ProjectFileStates == {AbsentFile, GarbageFile} \cup { JsonFile(cfg) : cfg \in UserConfigs }
HomeFileStates == {AbsentFile, JsonFile([repositories |-> <<"o/a", "o/b">>])}

\* loadConfig: the first location whose file exists and parses, over the
\* defaults; the defaults when there is none
RECURSIVE LoadFrom(_, _)
LoadFrom(files, loc) ==
  IF loc > Len(files) THEN DEFAULT_CONFIG
  ELSE IF files[loc].exists /\ files[loc].parses
    THEN Spread(DEFAULT_CONFIG, files[loc].config)
  ELSE LoadFrom(files, loc + 1)

loadConfig(files) == LoadFrom(files, 1)

\* getConfigPath: the first location whose file exists, or null
getConfigPath(files) ==
  IF \E loc \in 1..Len(files) : files[loc].exists
    THEN CHOOSE loc \in 1..Len(files) :
           files[loc].exists /\ \A l \in 1..(loc - 1) : ~files[l].exists
  ELSE NoPath

\* saveConfig: the file at configPath now holds the JSON text of the config
saveConfig(files, path, cfg) == [files EXCEPT ![path] = JsonFile(cfg)]

\* config.authFileHash, undefined when the config has none
AuthFileHash(cfg) == IF "authFileHash" \in DOMAIN cfg THEN cfg.authFileHash ELSE NoHash

\* { ...config.authFileHashes }
NoHashes == [r \in {} |-> NoHash]
AuthFileHashes(cfg) == IF "authFileHashes" \in DOMAIN cfg THEN cfg.authFileHashes ELSE NoHashes

\* hashes[repo], undefined when the map has no such key
StoredHash(hashes, repo) == IF repo \in DOMAIN hashes THEN hashes[repo] ELSE NoHash

\* a plugin that starts the watcher whenever the config is enabled
StartupUngated(cfg, authed) ==
  IF ~cfg.enabled
    THEN [returned |-> "{}", watching |-> FALSE, authChecked |-> FALSE]
  ELSE [returned |-> "{}", watching |-> TRUE, authChecked |-> FALSE]

\* the returns of the plugin function before the watcher is started; `authed`
\* is what verifyGhAuth would answer
Startup(cfg, authed) ==
  IF ~cfg.enabled
    THEN [returned |-> "{}", watching |-> FALSE, authChecked |-> FALSE]
  ELSE IF Len(cfg.repositories) = 0
    THEN [returned |-> "{event}", watching |-> FALSE, authChecked |-> FALSE]
  ELSE IF ~authed
    THEN [returned |-> "{event}", watching |-> FALSE, authChecked |-> TRUE]
  ELSE [returned |-> "{}", watching |-> TRUE, authChecked |-> TRUE]

\* a filter that lets every repository through
ReposNeedingSyncAll(repos, hashes, h) == repos

\* config.repositories.filter((repo) => currentHashes[repo] !== hash)
ReposNeedingSync(repos, hashes, h) ==
  SelectSeq(repos, LAMBDA r : StoredHash(hashes, r) # h)

NotReturned == "<not returned>"

\* one invocation of handleCredentialsChange that awaits its dispatch: the
\* fingerprint it was given, the repositories it dispatches to, the outcomes
\* so far
Job(h, targets) == [hash |-> h, targets |-> targets, successes |-> <<>>]

RemoveAt(s, i) == SubSeq(s, 1, i - 1) \o SubSeq(s, i + 1, Len(s))

CountTrue(s) == Cardinality({ i \in 1..Len(s) : s[i] })

\* the secrets of the repositories before any transport call of the plugin
NoSecrets == [r \in Repos |-> NoHash]

\* a transport call that succeeded: the secret of the repository holds the raw
\* content handed to the dispatch (recorded by its fingerprint)
SetSecret(secrets, repo, h) == [secrets EXCEPT ![repo] = h]

PluginIdle ==
  /\ variant = SingleHash
  /\ configFiles = <<AbsentFile, AbsentFile>>
  /\ returned = NotReturned
  /\ ghAuthed = FALSE
  /\ authChecked = FALSE
  /\ pluginConfig = DEFAULT_CONFIG
  /\ configPath = NoPath
  /\ currentConfig = DEFAULT_CONFIG
  /\ currentHashes = NoHashes
  /\ jobs = <<>>
  /\ called = FALSE
  /\ remote = NoSecrets
  /\ intact = TRUE
  /\ lastToast = 0
  /\ nRestarts = 0
  /\ clean = NoHash
  /\ armed = FALSE

\* before the plugin function is called: a variant, the config files, a
\* credential file
PluginInit ==
  /\ variant \in PluginVariants
  /\ configFiles \in { <<p, q>> : p \in ProjectFileStates, q \in HomeFileStates }
  /\ returned = NotReturned
  /\ ghAuthed = FALSE
  /\ authChecked = FALSE
  /\ pluginConfig = DEFAULT_CONFIG
  /\ configPath = NoPath
  /\ currentConfig = DEFAULT_CONFIG
  /\ currentHashes = NoHashes
  /\ jobs = <<>>
  /\ called = FALSE
  /\ remote = NoSecrets
  /\ intact = TRUE
  /\ lastToast = 0
  /\ nRestarts = 0
  /\ clean = NoHash
  /\ armed = FALSE

\* the watcher's variables that the plugin's runs leave idle
wrest == <<rawPending, debounceMs, debounceTimer, timers, evals, quiet, baseline,
           changed, nChange, lastCalls, burst, notified, nStops>>

PluginFrame == UNCHANGED <<wrest, svars, cvars, kvars, hvars>>

\* the plugin function, from loadConfig to its return
PluginStart ==
  /\ returned = NotReturned
  /\ \E authed \in BOOLEAN :
       LET cfg == loadConfig(configFiles)
           s == Startup(cfg, authed)
       IN /\ pluginConfig' = cfg
          /\ ghAuthed' = authed
          /\ authChecked' = s.authChecked
          /\ returned' = s.returned
          /\ closed' = ~s.watching
          /\ configPath' = IF s.watching THEN getConfigPath(configFiles) ELSE NoPath
          /\ currentConfig' = cfg
          /\ currentHashes' = IF s.watching /\ variant = HashPerTarget
                                THEN AuthFileHashes(cfg) ELSE NoHashes
          /\ lastHash' = IF s.watching /\ variant = SingleHash
                           THEN InitialLastHash(AuthFileHash(cfg))
                           ELSE InitialLastHash(NoHash)
  /\ armed' = (clean # NoHash)
  /\ called' = FALSE
  /\ remote' = remote
  /\ intact' = intact
  /\ lastToast' = 0
  /\ UNCHANGED <<variant, configFiles, jobs, nRestarts, clean, file, nWrites>>
  /\ PluginFrame

\* the process ends; what was in memory and under way is gone
PluginExit ==
  /\ returned # NotReturned
  /\ nRestarts < MaxRestarts
  /\ nRestarts' = nRestarts + 1
  /\ returned' = NotReturned
  /\ closed' = TRUE
  /\ jobs' = <<>>
  /\ lastHash' = NoHash
  /\ pluginConfig' = DEFAULT_CONFIG
  /\ currentConfig' = DEFAULT_CONFIG
  /\ currentHashes' = NoHashes
  /\ configPath' = NoPath
  /\ authChecked' = FALSE
  /\ lastToast' = 0
  /\ intact' = (intact /\ jobs = <<>>)
  /\ UNCHANGED <<variant, configFiles, ghAuthed, called, remote, clean, armed, file,
                 nWrites>>
  /\ PluginFrame

\* the credential file is written
CredentialWrite ==
  /\ nWrites < MaxCredWrites
  /\ \E c \in Contents :
       /\ file' = c
       /\ clean' = IF c = file THEN clean ELSE NoHash
       /\ armed' = IF c = file THEN armed ELSE FALSE
  /\ nWrites' = nWrites + 1
  /\ lastToast' = 0
  /\ UNCHANGED <<variant, configFiles, returned, ghAuthed, authChecked, pluginConfig,
                 configPath, currentConfig, currentHashes, jobs, called, remote, intact,
                 nRestarts,
                 closed, lastHash>>
  /\ PluginFrame

\* handleCredentialsChange up to its await of syncToRepositories
HandleCredentialsChange(h) ==
  LET targets == IF variant = HashPerTarget
                   THEN ReposNeedingSync(pluginConfig.repositories, currentHashes, h)
                   ELSE pluginConfig.repositories
  IN IF variant = HashPerTarget /\ Len(targets) = 0
       THEN /\ jobs' = jobs
            /\ lastToast' = 0
       ELSE /\ jobs' = Append(jobs, Job(h, targets))
            /\ lastToast' = 1

\* one evaluation of the watcher: handleChange on the file as it is, and the
\* callback it invokes
WatcherEvaluation ==
  /\ ~closed
  /\ Len(jobs) < MaxJobs
  /\ LET r == HandleChangeResume(TRUE, file, lastHash, FALSE)
     IN /\ lastHash' = r.lastHash
        /\ r.calls # <<>>
        /\ IF r.calls[1].cb = "onCredentialsChange"
             THEN HandleCredentialsChange(r.calls[1].hash)
             ELSE /\ lastToast' = 1
                  /\ jobs' = jobs
  /\ UNCHANGED <<variant, configFiles, returned, ghAuthed, authChecked, pluginConfig,
                 configPath, currentConfig, currentHashes, called, remote, intact, nRestarts,
                 clean,
                 armed, file, nWrites, closed>>
  /\ PluginFrame

\* syncToRepositories reaches the next target of a dispatch under way
TransportCall ==
  /\ \E j \in 1..Len(jobs), ok \in BOOLEAN :
       /\ Len(jobs[j].successes) < Len(jobs[j].targets)
       /\ jobs' = [jobs EXCEPT ![j].successes = Append(@, ok)]
       /\ remote' = IF ok
                       THEN SetSecret(remote, jobs[j].targets[Len(jobs[j].successes) + 1],
                                      jobs[j].hash)
                       ELSE remote
  /\ called' = TRUE
  /\ intact' = intact
  /\ lastToast' = 0
  /\ UNCHANGED <<variant, configFiles, returned, ghAuthed, authChecked, pluginConfig,
                 configPath, currentConfig, currentHashes, nRestarts, clean, armed,
                 file, nWrites, closed, lastHash>>
  /\ PluginFrame

\* a handleCredentialsChange that saves the hash whatever the summary says
PersistsAnyway(failed, path) == path # NoPath

\* if (summary.failed === 0) persistHash(hash), which returns at once without
\* a config path
Persists(failed, path) == failed = 0 /\ path # NoPath

\* src/index.ts: the rest of handleCredentialsChange once the summary is there,
\* persistHash included
SettleSingle ==
  /\ variant = SingleHash
  /\ \E j \in 1..Len(jobs), saveOk \in BOOLEAN :
       LET job == jobs[j]
           failed == Len(job.successes) - CountTrue(job.successes)
           persists == Persists(failed, configPath)
           updated == Spread(currentConfig, [authFileHash |-> job.hash])
       IN /\ Len(job.successes) = Len(job.targets)
          /\ jobs' = RemoveAt(jobs, j)
          /\ currentConfig' = IF persists THEN updated ELSE currentConfig
          /\ configFiles' = IF persists /\ saveOk
                              THEN saveConfig(configFiles, configPath, updated)
                              ELSE configFiles
          /\ lastToast' = 1 + (IF persists /\ ~saveOk THEN 1 ELSE 0)
          /\ clean' = IF persists /\ saveOk /\ job.hash = computeHash(file)
                        THEN job.hash ELSE clean
          /\ intact' = (intact /\ (persists => saveOk))
  /\ UNCHANGED <<variant, returned, ghAuthed, authChecked, pluginConfig, configPath,
                 currentHashes, called, remote, nRestarts, armed, file, nWrites, closed,
                 lastHash>>
  /\ PluginFrame

\* hashes that record the fingerprint for the first repository dispatched to,
\* whatever its result
UpdatedHashesFirst(hashes, job) ==
  IF job.targets = <<>> THEN hashes
  ELSE WithProperty(hashes, job.targets[1], job.hash)

\* the hashes after a dispatch: those stored, with the fingerprint for every
\* repository the dispatch succeeded for
RECURSIVE UpdatedHashes(_, _)
UpdatedHashes(hashes, job) ==
  IF job.successes = <<>> THEN hashes
  ELSE LET n == Len(job.successes)
           earlierHashes == UpdatedHashes(hashes, [job EXCEPT !.successes = SubSeq(@, 1, n - 1)])
       IN IF job.successes[n]
            THEN WithProperty(earlierHashes, job.targets[n], job.hash)
            ELSE earlierHashes

\* src/unnamed/part_003: the rest of handleCredentialsChange once the summary
\* is there, persistHashes included
SettlePerTarget ==
  /\ variant = HashPerTarget
  /\ \E j \in 1..Len(jobs), saveOk \in BOOLEAN :
       LET job == jobs[j]
           successful == CountTrue(job.successes)
           failed == Len(job.successes) - successful
           persists == successful > 0 /\ configPath # NoPath
           updatedHashes == UpdatedHashes(currentHashes, job)
       IN /\ Len(job.successes) = Len(job.targets)
          /\ jobs' = RemoveAt(jobs, j)
          /\ currentHashes' = IF persists THEN updatedHashes ELSE currentHashes
          /\ configFiles' = IF persists /\ saveOk
                              THEN saveConfig(configFiles, configPath,
                                     Spread(pluginConfig, [authFileHashes |-> updatedHashes]))
                              ELSE configFiles
          /\ lastToast' = failed + (IF successful > 0 THEN 1 ELSE 0)
                             + (IF persists /\ ~saveOk THEN 1 ELSE 0)
          /\ intact' = (intact /\ (persists => saveOk))
  /\ UNCHANGED <<variant, returned, ghAuthed, authChecked, pluginConfig, configPath,
                 currentConfig, called, remote, nRestarts, clean, armed, file, nWrites,
                 closed, lastHash>>
  /\ PluginFrame

LibIdle == ConfigIdle /\ CliIdle /\ HashIdle /\ PluginIdle

Init == WatcherInit /\ SyncIdle /\ LibIdle

Next ==
  \/ \E c \in Contents : Write(c)
  \/ RawEvent
  \/ Tick
  \/ \E t \in timers : TimerFire(t)
  \/ \E e \in evals, ok \in BOOLEAN : ReadFile(e, ok)
  \/ \E e \in evals, cbThrows \in BOOLEAN : HandleChange(e, cbThrows)
  \/ Stop
  \/ WatcherError

Spec == Init /\ [][Next]_vars

\* runs that study bursts: no baseline, decodable contents only, more writes
BurstContents == { c \in Contents : JSONValid(c) }

BurstInit ==
  /\ WatcherInit
  /\ SyncIdle
  /\ LibIdle
  /\ file \in BurstContents
  /\ baseline = NoHash

BurstNext ==
  \/ \E c \in BurstContents : BurstWrite(c)
  \/ RawEvent
  \/ Tick
  \/ \E t \in timers : TimerFire(t)
  \/ \E e \in evals, ok \in BOOLEAN : ReadFile(e, ok)
  \/ \E e \in evals, cbThrows \in BOOLEAN : HandleChange(e, cbThrows)
  \/ Stop

SpecBurst == BurstInit /\ [][BurstNext]_vars

\* runs that study the start of a watcher: the file exists with decodable
\* content that is not the baseline, and is at most touched afterwards. The
\* environment is fair: chokidar delivers the events it has, time passes, the
\* runtime runs the timers that are due, readFile settles, and a handleChange
\* whose await has settled resumes.
LiveInit ==
  /\ WatcherInit
  /\ SyncIdle
  /\ LibIdle
  /\ JSONValid(file)
  /\ baseline # computeHash(file)

\* the file is written again with the content it has
Touch == Write(file)

LiveNext ==
  \/ Touch
  \/ RawEvent
  \/ Tick
  \/ \E t \in timers : TimerFire(t)
  \/ \E e \in evals, ok \in BOOLEAN : ReadFile(e, ok)
  \/ \E e \in evals, cbThrows \in BOOLEAN : HandleChange(e, cbThrows)
  \/ Stop

SpecLive ==
  /\ LiveInit
  /\ [][LiveNext]_vars
  /\ WF_vars(RawEvent)
  /\ WF_vars(Tick)
  /\ WF_vars(\E t \in timers : TimerFire(t))
  /\ WF_vars(\E e \in evals, ok \in BOOLEAN : ReadFile(e, ok))
  /\ WF_vars(\E e \in evals, cbThrows \in BOOLEAN : HandleChange(e, cbThrows))

\* runs that study the stop function: no baseline, and every call of the
\* stop function is counted
StopInit ==
  /\ WatcherInit
  /\ SyncIdle
  /\ LibIdle
  /\ baseline = NoHash

StopNext ==
  \/ \E c \in Contents : Write(c)
  \/ RawEvent
  \/ Tick
  \/ \E t \in timers : TimerFire(t)
  \/ \E e \in evals, ok \in BOOLEAN : ReadFile(e, ok)
  \/ \E e \in evals, cbThrows \in BOOLEAN : HandleChange(e, cbThrows)
  \/ StopCounted

SpecStop == StopInit /\ [][StopNext]_vars

\* one call of syncToRepositories, next to a watcher that was not started
WatcherIdle ==
  /\ file = <<1, 2>>
  /\ rawPending = FALSE
  /\ closed = TRUE
  /\ debounceMs = 1
  /\ lastHash = NoHash
  /\ baseline = NoHash
  /\ debounceTimer = NoTimer
  /\ timers = {}
  /\ evals = {}
  /\ nWrites = 0
  /\ quiet = 0
  /\ changed = FALSE
  /\ nChange = 0
  /\ lastCalls = <<>>
  /\ burst = [len |-> 0, evals |-> 0, cbs |-> 0]
  /\ notified = NoHash
  /\ nStops = 0

SyncStart == WatcherIdle /\ SyncInit /\ LibIdle

SyncNext ==
  \/ SyncToRepositories
  \/ LoopStep
  \/ LoopReturn
  \/ \E o \in GhOutcomes : GhSettle(o)
  \/ \E r \in FetchOutcomes : HttpKey(r)
  \/ \E ok \in BOOLEAN, m \in Texts : HttpEncrypt(ok, m)
  \/ \E r \in FetchOutcomes : HttpPut(r)

SpecSync == SyncStart /\ [][SyncNext]_vars

\* runs of mergeConfig on its own
MergeStart == WatcherIdle /\ SyncIdle /\ ConfigInit /\ CliIdle /\ HashIdle /\ PluginIdle

MergeNext == MergeConfig

SpecMerge == MergeStart /\ [][MergeNext]_vars

\* runs of addPluginToConfig on its own
CliStart == WatcherIdle /\ SyncIdle /\ ConfigIdle /\ CliInit /\ HashIdle /\ PluginIdle

CliNext == AddPluginToConfig

SpecCli == CliStart /\ [][CliNext]_vars

\* computeHash alone, called on one content and then on a second one
HashStart == WatcherIdle /\ SyncIdle /\ ConfigIdle /\ CliIdle /\ HashInit /\ PluginIdle

HashNext ==
  \/ ComputeHash
  \/ NextContent

SpecHash == HashStart /\ [][HashNext]_vars

\* the plugin over a credential file and its config files: the watcher is not
\* yet started, the credential file holds "{}"
PluginWatcherInit ==
  /\ file = <<1, 2>>
  /\ rawPending = FALSE
  /\ closed = TRUE
  /\ debounceMs = 1
  /\ lastHash = NoHash
  /\ baseline = NoHash
  /\ debounceTimer = NoTimer
  /\ timers = {}
  /\ evals = {}
  /\ nWrites = 0
  /\ quiet = 0
  /\ changed = FALSE
  /\ nChange = 0
  /\ lastCalls = <<>>
  /\ burst = [len |-> 0, evals |-> 0, cbs |-> 0]
  /\ notified = NoHash
  /\ nStops = 0

PluginBoot ==
  PluginWatcherInit /\ SyncIdle /\ ConfigIdle /\ CliIdle /\ HashIdle /\ PluginInit

PluginNext ==
  \/ PluginStart
  \/ PluginExit
  \/ CredentialWrite
  \/ WatcherEvaluation
  \/ TransportCall
  \/ SettleSingle
  \/ SettlePerTarget

SpecPlugin == PluginBoot /\ [][PluginNext]_vars

\* ------------------------------------------------------------------ claims
Hashes == { computeHash(c) : c \in Contents }

\* the step delivers a raw add/change event to debouncedHandler
RawEventStep == rawPending /\ ~rawPending' /\ ~closed'

\* the evaluations that end in the step
Completed == { e \in evals : e.id \notin { x.id : x \in evals' } }

\* the step starts an evaluation
StartStep == Cardinality(evals') > Cardinality(evals)

\* no timer is armed, no evaluation is in flight, no raw event is waiting
Quiescent == timers = {} /\ evals = {} /\ ~rawPending

\* C1: a file written once and re-written with identical content any number of
\* times gets onCredentialsChange at most once in total, and exactly once as
\* soon as the watcher has taken up the content of a decodable file that is
\* not the baseline.
C1_Idempotence ==
  ~changed =>
    /\ nChange <= 1
    /\ (JSONValid(file) /\ lastHash = computeHash(file) /\ baseline # lastHash
          => nChange = 1)

\* the file was re-written MaxWrites times with the same content, every raw
\* event was evaluated, and one callback was made, by an earlier burst
C1_Witness ==
  /\ ~changed
  /\ nWrites = MaxWrites
  /\ Quiescent
  /\ nChange = 1
  /\ burst.evals = 1
  /\ burst.cbs = 0
  /\ lastHash = computeHash(file)

\* C2: an evaluation that read content B while the stored fingerprint is
\* hash(A), A # B, B decodable, invokes onCredentialsChange exactly once, with
\* raw = B, hash = computeHash(raw) and credentials = JSON-decode(raw), and
\* stores hash(B); every onCredentialsChange carries arguments of one read.
C2_ChangeDetection ==
  /\ [](\A i \in ChangeCalls(lastCalls) :
          /\ lastCalls[i].hash = computeHash(lastCalls[i].raw)
          /\ JSONValid(lastCalls[i].raw)
          /\ lastCalls[i].credentials = JSONParse(lastCalls[i].raw))
  /\ [][\A e \in Completed :
          (/\ e.phase = "read"
           /\ JSONValid(e.content)
           /\ \E a \in Contents : a # e.content /\ lastHash = computeHash(a))
          => /\ Cardinality(ChangeCalls(lastCalls')) = 1
             /\ lastCalls'[1].cb = "onCredentialsChange"
             /\ lastCalls'[1].raw = e.content
             /\ lastCalls'[1].hash = computeHash(e.content)
             /\ lastHash' = computeHash(e.content)]_vars

\* the watcher was started with the fingerprint of another content as its
\* baseline and has just made its one callback for the content of the file
C2_Witness ==
  /\ ~changed
  /\ baseline \in Hashes
  /\ baseline # computeHash(file)
  /\ Len(lastCalls) = 1
  /\ lastCalls[1].cb = "onCredentialsChange"
  /\ lastCalls[1].raw = file
  /\ nChange = 1

\* C3: a watcher started with storedHash = computeHash(content of the file)
\* never invokes onCredentialsChange while the content stays what it was,
\* whatever raw events arrive.
C3_BaselineSuppression ==
  (~changed /\ baseline = computeHash(file)) => nChange = 0

\* started on its baseline, the file was re-written MaxWrites times with the
\* same content and every raw event was evaluated
C3_Witness ==
  /\ ~changed
  /\ baseline = computeHash(file)
  /\ nWrites = MaxWrites
  /\ Quiescent
  /\ burst.evals = 1
  /\ nChange = 0

\* C4: an evaluation that ends in onError because the file could not be read
\* or its content did not decode leaves lastHash as it was before.
C4_FailureKeepsFingerprint ==
  [][\A e \in Completed :
       (\E i \in ErrorCalls(lastCalls') : lastCalls'[i].error \in {"read", "parse"})
         => lastHash' = lastHash]_vars

\* C5: once stop() has returned, no callback is invoked.
C5_StopThenSilence == closed => lastCalls = <<>>

\* C6: a raw event starts no evaluation; an evaluation starts only when a full
\* debounce interval has passed since the last raw event; a raw event leaves
\* exactly one timer armed, with the full interval to run.
C6_TrailingEdge ==
  /\ [][RawEventStep => /\ InFlight' = InFlight
                        /\ Cardinality(timers') = 1
                        /\ \A t \in timers' : t.left = debounceMs]_vars
  /\ [][StartStep => quiet >= debounceMs]_vars

\* a burst of two or more raw events has ended and its evaluation has started
C6_Witness ==
  /\ burst.len >= 2
  /\ burst.evals = 1
  /\ quiet = debounceMs
  /\ \E e \in evals : e.cur /\ e.phase = "reading"

\* C7: a burst of raw events, each less than the debounce interval after the
\* one before, starts at most one evaluation and gets at most one
\* onCredentialsChange; for a burst of two or more (of 5), the number of
\* callbacks is never the number of its events.
C7_Coalescing ==
  /\ burst.evals <= 1
  /\ burst.cbs <= 1
  /\ (burst.len >= 2 => burst.cbs # burst.len)

\* a burst of 5 raw events ended in one evaluation and one callback
C7_Witness ==
  /\ burst.len = 5
  /\ burst.evals = 1
  /\ burst.cbs = 1
  /\ Quiescent

\* C8: at most one evaluation is in flight at any time.
C8_SingleEvaluation == Cardinality(evals) <= 1

\* C9: a raw event that arrives while an evaluation is in flight arms a timer
\* (it is not dropped), and the evaluation that timer starts begins only after
\* the evaluations that were in flight have ended.
C9_DeferredNotDropped ==
  /\ [][(RawEventStep /\ evals # {}) => \E t \in timers' : t.behind = InFlight]_vars
  /\ [](\A e \in evals : ~e.behind)

HasTransport == ~(method = "http" /\ ~hasToken)

\* C11: the results are in input order, one per entry of the target list:
\* results[i].repository = targets[i] while the loop runs and in the summary
\* returned, whatever succeeded or failed, on every path; a target listed
\* twice is called twice and has two results.
C11_ResultOrdering ==
  /\ \A i \in 1..Len(results) : results[i].repository = repositories[i]
  /\ (pc = "returned" =>
        /\ Len(summary.results) = Len(repositories)
        /\ \A i \in 1..Len(repositories) : summary.results[i].repository = repositories[i]
        /\ (HasTransport => transport = repositories))

\* a returned dispatch to MaxTargets targets of which one is listed twice, once
\* with success and once without, and another target in between or around
C11_Witness ==
  /\ pc = "returned"
  /\ HasTransport
  /\ Len(repositories) = MaxTargets
  /\ Len(summary.results) = MaxTargets
  /\ \E i, j, k \in 1..MaxTargets :
        /\ i < j
        /\ repositories[i] = repositories[j]
        /\ repositories[k] # repositories[i]
        /\ summary.results[i].success # summary.results[j].success
  /\ Len(transport) = MaxTargets

\* C12: every summary returned, by the gh loop, the HTTP loop and the
\* missing-token branch, has total = number of results = number of targets,
\* successful = number of results with success, failed = number of results
\* without, and successful + failed = total.
C12_SummaryTotals ==
  pc = "returned" =>
    LET n == Len(summary.results)
        ok == { i \in 1..n : summary.results[i].success }
    IN /\ summary.total = n
       /\ summary.total = Len(repositories)
       /\ summary.successful = Cardinality(ok)
       /\ summary.failed = n - Cardinality(ok)
       /\ summary.successful + summary.failed = summary.total

\* a returned summary of MaxTargets targets with successes and failures
C12_Witness ==
  /\ pc = "returned"
  /\ summary.total = MaxTargets
  /\ summary.successful >= 1
  /\ summary.failed >= 1
  /\ Len(summary.results) = MaxTargets

\* C13: within one call of syncToRepositories at most one transport call is in
\* flight, and the call for a target starts only when the calls for all the
\* targets before it have settled and their results are recorded.
C13_SequentialDispatch ==
  /\ [](inFlight <= 1)
  /\ [][Len(transport') > Len(transport)
         => /\ inFlight = 0
            /\ Len(results) = Len(transport)
            /\ Len(transport') = Len(transport) + 1]_vars

\* the call for the second target is in flight, after the first has settled
C13_Witness ==
  /\ pc \in {"gh", "key", "encrypt", "put"}
  /\ Len(transport) = 2
  /\ Len(results) = 1
  /\ inFlight = 1

\* the step that ended the last transport call, when a call has ended
LastSettled == settled[Len(settled)]
CallEnded == pc \in {"loop", "returned"} /\ results # <<>> /\ settled # <<>>

\* C14: when a step of a transport call throws, the target gets the result
\* {success: false, error: the message thrown} and the loop goes on to the next
\* target: the dispatch returns with one result per target.
C14_ThrowBecomesResult ==
  /\ (CallEnded /\ LastSettled.threw)
       => results[Len(results)] =
            SyncResult(repositories[Len(results)], FALSE, LastSettled.text)
  /\ ((pc = "returned" /\ HasTransport) => Len(results) = Len(repositories))

\* C15: when the transport reports a non-success status (gh: exit code not 0,
\* HTTP: a non-2xx answer to the key fetch or to the PUT), the result has
\* success = false and error = the text the transport gave, unchanged; a
\* result with success carries no error.
C15_VerbatimDiagnostics ==
  /\ (CallEnded /\ ~LastSettled.threw /\ ~LastSettled.ok)
       => /\ ~results[Len(results)].success
          /\ results[Len(results)].error = LastSettled.text
  /\ \A i \in 1..Len(results) : results[i].success => results[i].error = NoError

\* C16: syncToRepositories with method "http" and no token goes straight to a
\* returned summary, without a transport call, in which every target, in input
\* order, failed with "GitHub token is required for HTTP method":
\* successful = 0, failed = total = number of targets.
C16_MissingToken ==
  (method = "http" /\ ~hasToken /\ pc # "idle") =>
    /\ pc = "returned"
    /\ transport = <<>>
    /\ requests = <<>>
    /\ summary.successful = 0
    /\ summary.failed = Len(repositories)
    /\ summary.total = Len(repositories)
    /\ Len(summary.results) = Len(repositories)
    /\ \A i \in 1..Len(repositories) :
         /\ summary.results[i].repository = repositories[i]
         /\ ~summary.results[i].success
         /\ summary.results[i].error = "GitHub token is required for HTTP method"

\* the missing-token summary of MaxTargets targets, not all the same
C16_Witness ==
  /\ method = "http"
  /\ ~hasToken
  /\ pc = "returned"
  /\ Len(repositories) = MaxTargets
  /\ repositories[1] # repositories[MaxTargets]
  /\ summary.failed = MaxTargets

\* C17: syncToRepositories with an empty target list returns
\* {total: 0, successful: 0, failed: 0, results: []} without starting a
\* transport call or issuing a request, on every path.
C17_EmptyInput ==
  repositories = <<>> =>
    /\ pc \in {"idle", "loop", "returned"}
    /\ transport = <<>>
    /\ requests = <<>>
    /\ (pc = "returned" =>
          summary = [total |-> 0, successful |-> 0, failed |-> 0, results |-> <<>>])

\* the HTTP loop with a token returned for an empty target list
C17_Witness ==
  /\ repositories = <<>>
  /\ method = "http"
  /\ hasToken
  /\ pc = "returned"
  /\ summary.total = 0

\* C18: an onCredentialsChange never carries the fingerprint of the
\* onCredentialsChange before it, and the first one of a watcher never carries
\* the baseline fingerprint, whatever was written and failed in between.
C18_DistinctNotifications ==
  [][\A i \in ChangeCalls(lastCalls') :
       Completed # {} =>
         /\ lastCalls'[i].hash # notified
         /\ (notified = NoHash => lastCalls'[i].hash # baseline)]_vars

\* C19: an evaluation that read content which is not valid JSON and whose
\* fingerprint is not the stored one invokes onError exactly once and
\* onCredentialsChange not at all.
C19_DecodeFailureIsError ==
  [][\A e \in Completed :
       (e.phase = "read" /\ ~JSONValid(e.content) /\ computeHash(e.content) # lastHash)
         => /\ Len(lastCalls') = 1
            /\ lastCalls'[1].cb = "onError"
            /\ lastCalls'[1].error = "parse"
            /\ ChangeCalls(lastCalls') = {}
            /\ notified' = notified]_vars

\* an evaluation of undecodable content written over decodable content that
\* was notified has just ended in one onError
C19_Witness ==
  /\ changed
  /\ ~JSONValid(file)
  /\ lastHash = computeHash(file)
  /\ notified \in Hashes
  /\ notified # lastHash
  /\ Len(lastCalls) = 1
  /\ lastCalls[1].cb = "onError"
  /\ lastCalls[1].error = "parse"

\* C20: a watcher started on an existing file with decodable content, with no
\* baseline or another baseline, that is not stopped and whose read of the
\* file does not fail, eventually invokes onCredentialsChange with the
\* fingerprint of that content; no write is needed for it.
C20_InitialEvent ==
  <>(\/ notified = computeHash(file)
     \/ closed
     \/ \E e \in evals : e.phase = "failed")

\* the content found at start was notified, with no write and no stop
C20_Witness ==
  /\ nWrites = 0
  /\ ~closed
  /\ ~changed
  /\ baseline # computeHash(file)
  /\ notified = computeHash(file)
  /\ nChange = 1
  /\ Len(lastCalls) = 1
  /\ lastCalls[1].raw = file

\* C21: the stop function leaves no timer armed, and from then on no
\* evaluation starts: the evaluation of a raw event whose timer was pending
\* when stop was called never starts and makes no callback.
C21_StopCancelsTimer ==
  /\ [](closed => timers = {})
  /\ [][closed' => ~StartStep]_vars

\* a raw event armed the timer, stop was called before it fired, and the
\* debounce interval has passed since without an evaluation
C21_Witness ==
  /\ closed
  /\ debounceTimer # NoTimer
  /\ burst.len >= 1
  /\ burst.evals = 0
  /\ quiet >= debounceMs
  /\ timers = {}
  /\ evals = {}
  /\ notified = NoHash

\* the step is a call of the stop function
StopStep == nStops' = nStops + 1

\* C22: a call of the stop function never throws, and a call on a watcher
\* that is stopped already changes nothing: the watcher is in the stopped
\* state the first call left it in, whatever state that call found (no
\* timer, a timer pending, an evaluation in flight).
C22_StopIdempotent ==
  /\ [](~StopHandle(timers, debounceTimer, closed).raised)
  /\ [][StopStep => /\ closed'
                     /\ timers' = {}
                     /\ ~rawPending'
                     /\ (closed => /\ timers' = timers
                                    /\ rawPending' = rawPending
                                    /\ <<evals, lastHash, debounceTimer, file, notified>>' =
                                         <<evals, lastHash, debounceTimer, file, notified>>)]_vars

\* the stop function was called MaxStops times after a timer had fired, while
\* the evaluation it started was in flight
C22_Witness ==
  /\ nStops = MaxStops
  /\ closed
  /\ debounceTimer # NoTimer
  /\ evals # {}
  /\ timers = {}

RequestsOf(verb) == { i \in 1..Len(requests) : requests[i].verb = verb }

\* the step in which the watcher hands a fingerprint to handleCredentialsChange
NoticeStep == ~closed /\ ~closed' /\ lastHash' # lastHash /\ JSONValid(file)

\* C24: when the plugin starts after a content was dispatched with no failed
\* target and its hash was saved to the config file, and the credential file
\* still has that content, it makes no transport call for as long as the
\* content stays.
C24_CrossRestartIdempotence ==
  variant = SingleHash /\ armed => ~called

\* C25: in the variant with one hash per repository, a notification of the
\* fingerprint h starts a dispatch to exactly the configured repositories whose
\* stored hash is not h, in their order; when every stored hash is h it starts
\* no dispatch, shows no toast and makes no transport call.
C25_OnlyStaleTargets ==
  [][variant = HashPerTarget /\ NoticeStep =>
      LET h == lastHash'
          stale == { i \in 1..Len(pluginConfig.repositories) :
                       StoredHash(currentHashes, pluginConfig.repositories[i]) # h }
      IN IF stale = {}
           THEN jobs' = jobs /\ lastToast' = 0 /\ called' = called
           ELSE /\ Len(jobs') = Len(jobs) + 1
                /\ jobs'[Len(jobs')].hash = h
                /\ jobs'[Len(jobs')].successes = <<>>
                /\ \A r \in Repos :
                     (\E k \in 1..Len(jobs'[Len(jobs')].targets) :
                        jobs'[Len(jobs')].targets[k] = r)
                     <=> (\E i \in stale : pluginConfig.repositories[i] = r)
                /\ Len(jobs'[Len(jobs')].targets) = Cardinality(stale)]_vars

\* after a restart the stored hashes of both repositories are the fingerprint
\* of the file: the notification of the start went by without a dispatch
C25_Witness ==
  /\ variant = HashPerTarget
  /\ ~closed
  /\ nRestarts > 0
  /\ lastHash = computeHash(file)
  /\ JSONValid(file)
  /\ Len(pluginConfig.repositories) = 2
  /\ \A i \in 1..Len(pluginConfig.repositories) :
       StoredHash(currentHashes, pluginConfig.repositories[i]) = lastHash
  /\ jobs = <<>>
  /\ ~called

\* C26: the watcher runs, and a dispatch or a transport call is made, only
\* when the loaded config is enabled, names a repository and gh answered that
\* it is authenticated; with a disabled config the plugin function returns {}
\* and has not asked gh; with no repository, or without authentication, it
\* returns an event handler and nothing else.
C26_StartupGating ==
  returned # NotReturned =>
    /\ (~closed \/ jobs # <<>> \/ called) =>
         /\ pluginConfig.enabled
         /\ Len(pluginConfig.repositories) > 0
         /\ authChecked
         /\ ghAuthed
    /\ ~pluginConfig.enabled => returned = "{}" /\ ~authChecked /\ closed
    /\ (pluginConfig.enabled /\ (Len(pluginConfig.repositories) = 0 \/ ~ghAuthed)) =>
         returned = "{event}" /\ closed

\* the plugin returned {} with the watcher running, and a transport call was
\* made
C26_Witness ==
  /\ returned = "{}"
  /\ ~closed
  /\ pluginConfig.enabled
  /\ ghAuthed
  /\ called

\* C27: a PUT is issued only by a call whose key fetch succeeded and whose
\* encryption succeeded, right after that target's GET; a call that ends at
\* the key fetch or at the encryption has issued no PUT and its result is a
\* failure.
C27_HttpStepOrder ==
  /\ [][(Len(requests') > Len(requests) /\ requests'[Len(requests')].verb = "PUT")
         => /\ pc = "encrypt"
            /\ Len(settled) = 1
            /\ settled[1].step = "key"
            /\ settled[1].ok
            /\ ~settled[1].threw
            /\ Len(settled') = 2
            /\ settled'[2].step = "encrypt"
            /\ settled'[2].ok
            /\ requests[Len(requests)] =
                 [verb |-> "GET", repository |-> requests'[Len(requests')].repository]
            /\ requests'[Len(requests')].repository = repositories[idx]]_vars
  /\ []((CallEnded /\ method = "http" /\ LastSettled.step \in {"key", "encrypt"})
          => /\ ~results[Len(results)].success
             /\ requests[Len(requests)] =
                  [verb |-> "GET", repository |-> repositories[Len(results)]])
  /\ [](Cardinality(RequestsOf("PUT")) <= Cardinality(RequestsOf("GET")))

\* an HTTP dispatch to MaxTargets targets returned: the first target failed
\* before its PUT, the last one was PUT with success
C27_Witness ==
  /\ pc = "returned"
  /\ method = "http"
  /\ Len(results) = MaxTargets
  /\ ~results[1].success
  /\ results[MaxTargets].success
  /\ requests[2].verb = "GET"
  /\ requests[Len(requests)].verb = "PUT"
  /\ Cardinality(RequestsOf("GET")) = MaxTargets

\* the regular expression /^[a-f0-9]{64}$/ of the tests
HexString(hx) ==
  /\ Len(hx) = 64
  /\ \A i \in 1..Len(hx) : \E d \in 1..16 : hx[i] = HexDigits[d]

\* the step in which a call of computeHash returns
ComputeHashStep == hexHash = NoDigest /\ hexHash' # NoDigest

\* C28: computeHash returns 64 lowercase hexadecimal characters for every
\* content, the empty string and Unicode text included; called again on the
\* same content it returns the same fingerprint; tested contents that differ,
\* be it by whitespace only, get different fingerprints; and a call changes
\* nothing but its result.
C28_FingerprintDeterminism ==
  /\ [](hexHash # NoDigest => HexString(hexHash))
  /\ [](hexHash # NoDigest /\ earlier # NoCall =>
          /\ (earlier.content = input => earlier.hash = hexHash)
          /\ (/\ earlier.content # input
              /\ earlier.content \in TestedContents
              /\ input \in TestedContents
              => earlier.hash # hexHash))
  /\ [][ComputeHashStep => UNCHANGED <<input, earlier, wvars, svars, cvars, kvars, pvars>>]_vars

\* the compact and the spaced document of the tests were fingerprinted one
\* after the other
C28_Witness ==
  /\ earlier.content = CompactContent
  /\ input = SpacedContent
  /\ HexString(earlier.hash)
  /\ HexString(hexHash)

\* C29: after mergeConfig(existing, updates) every property has the value of
\* updates if updates has the property, else the value of existing if existing
\* has it, else the value of DEFAULT_CONFIG, and there is no other property;
\* merging the same updates into the result once more changes nothing.
C29_MergePrecedence ==
  nMerges >= 1 =>
    /\ DOMAIN merged = DOMAIN DEFAULT_CONFIG \cup DOMAIN existing \cup DOMAIN updates
    /\ \A k \in DOMAIN merged :
         merged[k] = IF k \in DOMAIN updates THEN updates[k]
                     ELSE IF k \in DOMAIN existing THEN existing[k]
                     ELSE DEFAULT_CONFIG[k]
    /\ mergeConfig(merged, updates) = merged

\* updates that name the repositories were merged twice into a config that
\* has its own debounceMs, authFileHashes and repositories
C29_Witness ==
  /\ nMerges = 2
  /\ DOMAIN updates = {"repositories", "secretName"}
  /\ DOMAIN existing = {"repositories", "debounceMs", "authFileHashes"}
  /\ existing.debounceMs # DEFAULT_CONFIG.debounceMs
  /\ existing.repositories # updates.repositories
  /\ merged.debounceMs = existing.debounceMs
  /\ merged.authFileHashes = existing.authFileHashes
  /\ merged.repositories = updates.repositories
  /\ merged.enabled = DEFAULT_CONFIG.enabled

\* C30: addPluginToConfig returns an object that is not its input, and after
\* the call the input config and the plugin array it refers to are what they
\* were before the call.
C30_NoInputMutation ==
  updatedConfig # NoRef =>
    /\ updatedConfig # ConfigRef
    /\ heap[ConfigRef] = before[ConfigRef]
    /\ (HasPlugins(before, ConfigRef) =>
          heap[before[ConfigRef].plugin] = before[before[ConfigRef].plugin])

\* the callbacks an evaluation that ends in the step may invoke when the
\* callback does not throw: none, one onCredentialsChange, or one onError
OneOutcome(e, calls, lh) ==
  IF e.phase = "failed"
    THEN calls = <<Call("onError", NoContent, NoContent, NoHash, "read")>>
  ELSE IF computeHash(e.content) = lh
    THEN calls = <<>>
  ELSE IF ~JSONValid(e.content)
    THEN calls = <<Call("onError", NoContent, NoContent, NoHash, "parse")>>
  ELSE /\ Len(calls) = 1
       /\ calls[1].cb = "onCredentialsChange"
       /\ calls[1].hash = computeHash(e.content)

\* C38: an evaluation invokes no callback when the fingerprint is the stored
\* one, exactly one onCredentialsChange when it differs and the content
\* decodes, exactly one onError when the read or the decoding fails; never
\* both callbacks.
C38_OneOutcome ==
  [][\A e \in Completed : OneOutcome(e, lastCalls', lastHash)]_vars

\* C38 (amended): as above, except that an onCredentialsChange that throws is
\* followed by exactly one onError, given what it threw; in no other case are
\* both callbacks invoked by one evaluation.
C38_OneOutcomeUnlessThrown ==
  [][\A e \in Completed :
       \/ OneOutcome(e, lastCalls', lastHash)
       \/ /\ e.phase = "read"
          /\ computeHash(e.content) # lastHash
          /\ JSONValid(e.content)
          /\ Len(lastCalls') = 2
          /\ lastCalls'[1].cb = "onCredentialsChange"
          /\ lastCalls'[1].hash = computeHash(e.content)
          /\ lastCalls'[1].error = "threw"
          /\ lastCalls'[2] = Call("onError", NoContent, NoContent, NoHash, "callback")]_vars

\* one evaluation invoked onCredentialsChange with the new fingerprint and then
\* onError
C38_Witness ==
  /\ Len(lastCalls) = 2
  /\ lastCalls[1].cb = "onCredentialsChange"
  /\ lastCalls[1].hash = lastHash
  /\ lastCalls[2].cb = "onError"
  /\ evals = {}

\* C39: at most one debounce timer is armed at any time, and it is the one
\* debounceTimer names; a timer is armed only by a raw event, which leaves
\* exactly one armed whatever was armed before, and every evaluation that
\* starts uses up one armed timer: evaluations never outnumber raw events,
\* neither in a burst nor in a run.
C39_OneArmedTimer ==
  /\ [](Cardinality(timers) <= 1)
  /\ [](\A t \in timers : t.id = debounceTimer)
  /\ [](burst.evals <= burst.len)
  /\ [][/\ (RawEventStep => Cardinality(timers') = 1)
        /\ (Cardinality(timers') > Cardinality(timers) => RawEventStep)
        /\ (StartStep => Cardinality(timers') = Cardinality(timers) - 1)]_vars

\* a second raw event of a burst came while the timer of the first was armed:
\* one timer is armed, with the full interval to run
C39_Witness ==
  /\ burst.len >= 2
  /\ burst.evals = 0
  /\ Cardinality(timers) = 1
  /\ \A t \in timers : t.left = debounceMs /\ t.id = debounceTimer
  /\ ~closed

\* the step in which the plugin function runs and returns
PluginStartStep == returned = NotReturned /\ returned' # NotReturned

\* C37: when the plugin has started the watcher, the path it got from
\* getConfigPath is the location of the file whose content loadConfig
\* returned: that file parses and the running config is its content over the
\* defaults.
C37_PathIsLoadedFile ==
  [][PluginStartStep /\ ~closed' /\ configPath' # NoPath =>
       /\ configFiles[configPath'].parses
       /\ pluginConfig' = Spread(DEFAULT_CONFIG, configFiles[configPath'].config)]_vars

\* the step in which an invocation of handleCredentialsChange returns
SettleStep == returned' # NotReturned /\ Len(jobs') = Len(jobs) - 1

\* the targets of a dispatch that failed
FailedOf(job) == Len(job.successes) - CountTrue(job.successes)

\* C33: in the variant with one hash, when a dispatch has returned, the config
\* file holds the fingerprint of that notification as authFileHash if the
\* dispatch had no failed target and there is a config path, and the config
\* files are as they were if it had a failed target or there is no path.
C33_PersistIffNoFailure ==
  [][variant = SingleHash /\ SettleStep =>
       \E j \in 1..Len(jobs) :
         /\ jobs' = RemoveAt(jobs, j)
         /\ IF FailedOf(jobs[j]) = 0 /\ configPath # NoPath
              THEN /\ configFiles'[configPath].parses
                   /\ AuthFileHash(configFiles'[configPath].config) = jobs[j].hash
              ELSE configFiles' = configFiles]_vars

\* C33 (amended): as above, but with no failed target and a config path the
\* hash is in the file only if the write of the file succeeded: then the file
\* at the config path holds the config in memory with that fingerprint as
\* authFileHash and the other file is untouched; when the write failed the
\* config files are as they were and a warning toast was shown.
C33_PersistIffNoFailureAndSaved ==
  [][variant = SingleHash /\ SettleStep =>
       \E j \in 1..Len(jobs) :
         /\ jobs' = RemoveAt(jobs, j)
         /\ IF FailedOf(jobs[j]) = 0 /\ configPath # NoPath
              THEN \/ /\ configFiles' =
                           [configFiles EXCEPT ![configPath] =
                              JsonFile(Spread(currentConfig, [authFileHash |-> jobs[j].hash]))]
                      /\ lastToast' = 1
                   \/ /\ configFiles' = configFiles
                      /\ lastToast' = 2
              ELSE configFiles' = configFiles /\ lastToast' = 1]_vars

\* a dispatch to two repositories with no failure has returned and its
\* fingerprint, that of the credential file, is in the config file
C33_Witness ==
  /\ variant = SingleHash
  /\ configPath # NoPath
  /\ jobs = <<>>
  /\ called
  /\ lastToast = 1
  /\ configFiles[IF configPath = NoPath THEN 1 ELSE configPath].parses
  /\ AuthFileHash(configFiles[IF configPath = NoPath THEN 1 ELSE configPath].config) = computeHash(file)
  /\ clean = computeHash(file)

\* the dispatch `job` succeeded for repository r
SucceededFor(job, r) ==
  \E i \in 1..Len(job.targets) : job.targets[i] = r /\ job.successes[i]

\* C36: in the variant with a hash per target, when a dispatch for fingerprint
\* h has returned, the stored hash of each repository it succeeded for is h,
\* and the stored hash of each repository it failed for or was not sent to is
\* what it was; the config file is either untouched or holds exactly the
\* stored hashes.
C36_StoredHashIffSuccess ==
  [][variant = HashPerTarget /\ SettleStep =>
       \E j \in 1..Len(jobs) :
         /\ jobs' = RemoveAt(jobs, j)
         /\ \A r \in Repos :
              StoredHash(currentHashes', r) =
                IF SucceededFor(jobs[j], r) THEN jobs[j].hash
                ELSE StoredHash(currentHashes, r)
         /\ DOMAIN currentHashes' \subseteq Repos
         /\ \/ configFiles' = configFiles
            \/ /\ configPath # NoPath
               /\ configFiles' =
                    [configFiles EXCEPT ![configPath] =
                       JsonFile(Spread(pluginConfig, [authFileHashes |-> currentHashes']))]]_vars

\* a dispatch to both repositories has returned with a success for "o/a" and
\* a failure for "o/b": only "o/a" has the fingerprint of the file, in memory
\* and in the config file
C36_Witness ==
  /\ variant = HashPerTarget
  /\ jobs = <<>>
  /\ called
  /\ lastToast = 2
  /\ StoredHash(currentHashes, "o/a") = computeHash(file)
  /\ StoredHash(currentHashes, "o/b") = NoHash
  /\ configPath # NoPath
  /\ AuthFileHashes(configFiles[IF configPath = NoPath THEN 1 ELSE configPath].config) = currentHashes

\* the step in which handleCredentialsChange starts a dispatch
DispatchStep == returned' = returned /\ Len(jobs') > Len(jobs)

\* the step in which the plugin function runs, or the process ends
RestartStep == returned' # returned

C31_LatestContentWins ==
  /\ variant = SingleHash
  /\ ~closed
  /\ jobs = <<>>
  /\ clean # NoHash
  /\ clean = lastHash
  => \A i \in 1..Len(pluginConfig.repositories) :
       remote[pluginConfig.repositories[i]] = lastHash

\* C32: in the variant with one hash, once every dispatch has returned and the
\* dispatch of the last notification had no failed target and saved its hash,
\* the authFileHash in the config file is the fingerprint of that last
\* notification, whatever the order in which the dispatches returned.
C32_BaselineFollowsNotificationOrder ==
  /\ variant = SingleHash
  /\ ~closed
  /\ configPath # NoPath
  /\ jobs = <<>>
  /\ clean # NoHash
  /\ clean = lastHash
  => AuthFileHash(configFiles[configPath].config) = lastHash

\* the first evaluation of the watcher after a restart, on a file that decodes
FirstEvaluationStep ==
  /\ nRestarts >= 1
  /\ returned' = returned
  /\ ~closed
  /\ lastHash = NoHash
  /\ lastHash' # NoHash
  /\ JSONValid(file)

\* the configured repositories whose secret does not hold the content with
\* fingerprint h: those a dispatch of it failed for or never reached
Lacking(repos, h) ==
  LET lacks(r) == remote[r] # h IN SelectSeq(repos, lacks)

\* C35: in the variant with a hash per target, when every dispatch so far has
\* returned and every save succeeded, the first evaluation after a restart
\* dispatches the file's content to exactly the configured repositories whose
\* secret does not hold it, and starts no dispatch when there is none.
C35_RestartDispatchesOnlyLacking ==
  [][variant = HashPerTarget /\ intact /\ FirstEvaluationStep =>
       LET targets == Lacking(pluginConfig.repositories, computeHash(file))
       IN IF targets = <<>> THEN jobs' = jobs
          ELSE jobs' = Append(jobs, Job(computeHash(file), targets))]_vars

====
